---- MODULE Spec2Model ----
(***************************************************************************)
(* OneApp reader mode: the two-tier article cache.                         *)
(*                                                                         *)
(*   src/src/main.rs    AppState: the reader session, the in-memory LRU    *)
(*                      cache (reader_cache, reader_cache_order) and the   *)
(*                      handlers open_reader, close_reader, select_story.  *)
(*   src/src/reader.rs  load_article and the disk cache                    *)
(*                      (read_disk_cache, write_disk_cache,                *)
(*                      is_cache_stale).                                   *)
(*                                                                         *)
(* Option<T> is a sequence of length at most one: None is <<>>, Some(x) is *)
(* <<x>>.  A HashMap is a function whose DOMAIN is its key set.            *)
(***************************************************************************)
EXTENDS Integers, Sequences, FiniteSets, Bags, TLC

(***************************************************************************)
(* Program constants.                                                      *)
(***************************************************************************)
READER_CACHE_MAX_ENTRIES == 32

DISK_CACHE_TTL_SECS == 24 * 60 * 60

MAX_HTML_BYTES == 4 * 1024 * 1024

\* read_to_end_limited: let mut buf = [0u8; 8192]
ReadBufLen == 8192

(***************************************************************************)
(* Bounds of the model.                                                    *)
(***************************************************************************)
\* URLs beyond the cache capacity that the user may open.
ExtraUrls == 1

\* Load tasks in flight at once.
MaxTasks == 2

\* The clock advances by one second at most MaxFineTicks times in a row and
\* by BigStep seconds at most MaxBigTicks times: an entry written in second 0
\* or 1 is read at the ages 0, 1, TTL - 1, TTL and TTL + 1.
MaxFineTicks == 1

MaxBigTicks == 1

\* Concurrent write_disk_cache calls for one URL, and the write system calls
\* fs::write needs for one entry.
NumWriters == 2

WriteChunks == 2

\* The staleness test is applied at the system times TTL, 2 TTL, ... MaxDays TTL
\* to entries whose age is within MaxDelta seconds of the TTL.
MaxDays == 3

MaxDelta == 10

\* The longest blocks vector of the articles written to disk and read back.
MaxBlocks == 2

\* The longest of the short block sequences given to normalize_blocks.
MaxNormLen == 3

\* The reads of one response body that return a single byte instead of all
\* that fits the buffer.
MaxShortReads == 2

\* The text of a pre element has at most MaxCodeLen characters.
MaxCodeLen == 6

BigStep == DISK_CACHE_TTL_SECS

None == <<>>

Some(x) == <<x>>

IsSome(o) == Len(o) = 1

Unwrap(o) == o[1]

(***************************************************************************)
(* URLs.  1..NumUrls are distinct http(s) URLs; UnparsableUrl is a string  *)
(* url::Url::parse rejects and FtpUrl parses with scheme "ftp".  Distinct  *)
(* URLs are taken to hash to distinct cache keys.                          *)
(***************************************************************************)
NumUrls == READER_CACHE_MAX_ENTRIES + ExtraUrls

Urls == 1..NumUrls

UnparsableUrl == 0

FtpUrl == -1

InvalidUrls == {UnparsableUrl, FtpUrl}

\* url::Url::parse(url) followed by scheme(): None when the URL does not parse.
UrlScheme(url) ==
  IF url = UnparsableUrl THEN None
  ELSE IF url = FtpUrl THEN Some("ftp")
  ELSE IF url % 2 = 0 THEN Some("https")
  ELSE Some("http")

\* The URLs already in the memory cache when exploration starts from a warm
\* cache: they were opened, in this order, earlier in the process's life.
SeedLen == READER_CACHE_MAX_ENTRIES

\* The URLs the user opens during exploration: the oldest of the warm cache,
\* the URLs beyond the capacity, and the two invalid ones.
InputUrls == {1} \cup ((READER_CACHE_MAX_ENTRIES + 1)..NumUrls) \cup InvalidUrls

\* The title hint open_reader is called with: Some(story.title), main.rs:1237.
TitleHints == {Some("hint")}

VARIABLES
  reader,               \* AppState.reader: Option<ReaderSession>
  reader_cache,         \* AppState.reader_cache: HashMap<String, ReaderArticle>
  reader_cache_order,   \* AppState.reader_cache_order: VecDeque<String>
  disk,                 \* the file at disk_cache_path(url), per URL
  now,                  \* SystemTime::now(), seconds
  tasks,                \* the load_article futures spawned by open_reader, a bag
  touched,              \* history: URLs by the time of their last touch, oldest first
  ev,                   \* history: what the last step did
  fsDir,                \* the cache directory of one URL: path -> inode (0: no file)
  fsData,               \* the content of each inode
  writers,              \* the write_disk_cache calls in progress
  rd,                   \* a read_disk_cache call in progress
  fsEnv,                \* how the calls are scheduled; history: faults injected
  call                  \* one call of a function of reader.rs: arguments and result

appVars == <<reader, reader_cache, reader_cache_order, disk, now, tasks, touched, ev>>

fsVars == <<fsDir, fsData, writers, rd, fsEnv, call>>

vars == <<appVars, fsVars>>

(***************************************************************************)
(* The in-memory cache (main.rs).                                          *)
(***************************************************************************)
MapInsert(m, k, v) == [x \in DOMAIN m \cup {k} |-> IF x = k THEN v ELSE m[x]]

MapRemove(m, k) == [x \in DOMAIN m \ {k} |-> m[x]]

Retain(s, url) == SelectSeq(s, LAMBDA u : u # url)

TouchNoPromote(order, url) ==
  IF \E i \in 1..Len(order) : order[i] = url THEN order ELSE Append(order, url)

TouchReaderCachePushOnly(order, url) == Append(order, url)

\* touch_reader_cache: retain(|u| u != url); push_back(url)
TouchReaderCache(order, url) == Append(Retain(order, url), url)

RECURSIVE EvictLoop(_, _, _)
\* while order.len() > limit { if let Some(evicted) = order.pop_front() { cache.remove(&evicted) } }
EvictLoop(cache, order, limit) ==
  IF Len(order) > limit
  THEN EvictLoop(MapRemove(cache, Head(order)), Tail(order), limit)
  ELSE [cache |-> cache, order |-> order]

CacheNoEvict(cache, order, url, article) ==
  [cache |-> MapInsert(cache, url, article), order |-> TouchReaderCache(order, url)]

\* cache_reader_article: insert, touch, evict from the front while over capacity
CacheReaderArticle(cache, order, url, article) ==
  EvictLoop(MapInsert(cache, url, article), TouchReaderCache(order, url),
            READER_CACHE_MAX_ENTRIES)

CachedReaderArticleNoTouch(cache, order, url) ==
  IF url \in DOMAIN cache
  THEN [article |-> Some(cache[url]), order |-> order]
  ELSE [article |-> None, order |-> order]

\* cached_reader_article: the article (if any) and the order after the touch
CachedReaderArticle(cache, order, url) ==
  IF url \in DOMAIN cache
  THEN [article |-> Some(cache[url]), order |-> TouchReaderCache(order, url)]
  ELSE [article |-> None, order |-> order]

(***************************************************************************)
(* The disk cache (reader.rs).  A file is None (absent) or Some of its     *)
(* content: valid is whether serde_json parses it as a DiskCacheEntry.     *)
(***************************************************************************)
Article(url, at, title) == [url |-> url, at |-> at, title |-> title]

DiskCacheEntry(fetched_at, article) ==
  [valid |-> TRUE, fetched_at |-> fetched_at, article |-> article]

\* A file serde_json does not parse as a DiskCacheEntry.
CorruptEntry == [valid |-> FALSE, fetched_at |-> 0, article |-> Article(0, 0, "")]

\* now_unix_secs: None when the system time is before the epoch
NowUnixSecs(t) == IF t >= 0 THEN Some(t) ELSE None

\* i64::saturating_sub; the model's times are far inside the i64 range, where
\* it is the plain difference
SaturatingSub(a, b) == a - b

IsCacheStaleAtTtl(t, fetched_at) ==
  LET n == NowUnixSecs(t)
  IN  IF n = None THEN TRUE
      ELSE SaturatingSub(Unwrap(n), fetched_at) >= DISK_CACHE_TTL_SECS

IsCacheStaleOffByOne(t, fetched_at) ==
  LET n == NowUnixSecs(t)
  IN  IF n = None THEN TRUE
      ELSE SaturatingSub(Unwrap(n), fetched_at) > DISK_CACHE_TTL_SECS + 1

\* is_cache_stale
IsCacheStale(t, fetched_at) ==
  LET n == NowUnixSecs(t)
  IN  IF n = None THEN TRUE
      ELSE SaturatingSub(Unwrap(n), fetched_at) > DISK_CACHE_TTL_SECS

ReadDiskCacheNeverStale(file, t) ==
  IF file = None THEN None
  ELSE IF ~Unwrap(file).valid THEN None
  ELSE Some(Unwrap(file).article)

\* read_disk_cache: fs::read(path).ok()?, from_slice(..).ok()?, the staleness test
ReadDiskCache(file, t) ==
  IF file = None THEN None
  ELSE IF ~Unwrap(file).valid THEN None
  ELSE IF IsCacheStale(t, Unwrap(file).fetched_at) THEN None
  ELSE Some(Unwrap(file).article)

\* What the file system lets write_disk_cache do: where (if anywhere) it fails.
WriteOutcomes ==
  {"ok", "dir_err", "tmp_err", "retry_ok", "retry_err", "remove_and_retry_err"}

\* write_disk_cache: the target file afterwards and whether the call returned Ok
WriteDiskCache(file, article, t, outcome) ==
  LET n == NowUnixSecs(t)
  IN  IF outcome = "dir_err" THEN [file |-> file, ok |-> FALSE]
      ELSE IF n = None THEN [file |-> file, ok |-> FALSE]
      ELSE IF outcome = "tmp_err" THEN [file |-> file, ok |-> FALSE]
      ELSE IF outcome \in {"ok", "retry_ok"}
        THEN [file |-> Some(DiskCacheEntry(Unwrap(n), article)), ok |-> TRUE]
      ELSE IF outcome = "retry_err"
        \* rename failed, remove_file of the target succeeded, rename failed again
        THEN [file |-> None, ok |-> FALSE]
      \* rename failed, remove_file failed too, rename failed again
      ELSE [file |-> file, ok |-> FALSE]

(***************************************************************************)
(* load_article (reader.rs), in its two synchronous parts: up to the       *)
(* request being sent, and from the response to the return.                *)
(***************************************************************************)
Ok(article, tier, ops) ==
  [tag |-> "Ok", article |-> Some(article), message |-> "", tier |-> tier, ops |-> ops]

Err(message, ops) ==
  [tag |-> "Err", article |-> None, message |-> message, tier |-> "none", ops |-> ops]

Pending(ops) ==
  [tag |-> "Send", article |-> None, message |-> "", tier |-> "none", ops |-> ops]

\* cached.title = title_hint when the cached title is empty and a hint is given
PatchTitle(article, hint) ==
  IF article.title = "" /\ IsSome(hint)
  THEN [article EXCEPT !.title = Unwrap(hint)]
  ELSE article

LoadArticleStartReadsFirst(url, hint, file, t, build_ok) ==
  LET scheme == UrlScheme(url)
      cached == ReadDiskCache(file, t)
  IN  IF scheme = None THEN Err("Invalid URL", {"disk_read"})
      ELSE IF Unwrap(scheme) \notin {"http", "https"}
        THEN Err("Only http(s) URLs are supported.", {"disk_read"})
      ELSE IF IsSome(cached)
        THEN Ok(PatchTitle(Unwrap(cached), hint), "disk", {"disk_read"})
      ELSE IF ~build_ok THEN Err("request", {"disk_read"})
      ELSE Pending({"disk_read", "http_send"})

LoadArticleStartFailsOnBadEntry(url, hint, file, t, build_ok) ==
  LET scheme == UrlScheme(url)
      cached == ReadDiskCache(file, t)
  IN  IF scheme = None THEN Err("Invalid URL", {})
      ELSE IF Unwrap(scheme) \notin {"http", "https"}
        THEN Err("Only http(s) URLs are supported.", {})
      ELSE IF IsSome(cached)
        THEN Ok(PatchTitle(Unwrap(cached), hint), "disk", {"disk_read"})
      ELSE IF file # None THEN Err("cache", {"disk_read"})
      ELSE IF ~build_ok THEN Err("request", {"disk_read"})
      ELSE Pending({"disk_read", "http_send"})

\* load_article, lines 98-124: URL check, disk lookup, request built and sent
LoadArticleStart(url, hint, file, t, build_ok) ==
  LET scheme == UrlScheme(url)
      cached == ReadDiskCache(file, t)
  IN  IF scheme = None THEN Err("Invalid URL", {})
      ELSE IF Unwrap(scheme) \notin {"http", "https"}
        THEN Err("Only http(s) URLs are supported.", {})
      ELSE IF IsSome(cached)
        THEN Ok(PatchTitle(Unwrap(cached), hint), "disk", {"disk_read"})
      ELSE IF ~build_ok THEN Err("request", {"disk_read"})
      ELSE Pending({"disk_read", "http_send"})

\* What the transport and the page can answer.
\* A content-type header value: whether HeaderValue::to_str accepts it
\* (visible ASCII only), and its text, a sequence of words.
HeaderValue(ascii, value) == [ascii |-> ascii, value |-> value]

\* The content-type header of the responses the application is run on:
\* none, or one of four plain media types.
ContentTypes ==
  {None} \cup {Some(HeaderValue(TRUE, <<type>>)) :
                type \in {"text/plain", "text/html", "application/xhtml+xml",
                          "application/pdf"}}

\* load_article, lines 130-135: the header's text, "" when there is no
\* header or to_str fails
ContentType(resp) ==
  IF resp.ctype = None THEN <<>>
  ELSE IF ~Unwrap(resp.ctype).ascii THEN <<>>
  ELSE Unwrap(resp.ctype).value

\* str::contains, on words
Contains(value, needle) == \E k \in 1..Len(value) : value[k] = needle

UnsupportedNever(content_type) == FALSE

\* load_article, lines 146-148
Unsupported(content_type) ==
  /\ content_type # <<>>
  /\ ~(Contains(content_type, "text/html")
        \/ Contains(content_type, "application/xhtml+xml"))

\* The pages explored carry no title of their own.
PageTitles == {None}

Responses ==
  [kind : {"transport_err", "status_err", "body_err"},
   ctype : {None}, page_title : {None}]
  \cup [kind : {"ok"}, ctype : ContentTypes, page_title : PageTitles]

\* Whether load_article reaches write_disk_cache on this response.
Extracts(resp) ==
  /\ resp.kind = "ok"
  /\ \/ Contains(ContentType(resp), "text/plain")
     \/ ~Unsupported(ContentType(resp))

\* plain_text_article: title_hint.unwrap_or_else(|| url.to_string())
PlainTextArticle(url, hint, t) ==
  Article(url, t, IF IsSome(hint) THEN Unwrap(hint) ELSE "url")

\* extract_html_article: the page's title, else the hint, else ""
ExtractHtmlArticle(url, hint, page_title, t) ==
  Article(url, t, IF IsSome(page_title) THEN Unwrap(page_title)
                  ELSE IF IsSome(hint) THEN Unwrap(hint) ELSE "")

LoadArticleFinishWritesUnsupported(url, hint, file, t, resp, outcome) ==
  IF resp.kind = "transport_err"
    THEN [result |-> Err("transport", {}), file |-> file]
  ELSE IF resp.kind = "status_err"
    THEN [result |-> Err("HTTP status", {}), file |-> file]
  ELSE IF resp.kind = "body_err"
    THEN [result |-> Err("Response too large", {}), file |-> file]
  ELSE IF resp.kind = "read_err"
    THEN [result |-> Err("read", {}), file |-> file]
  ELSE IF Contains(ContentType(resp), "text/plain")
    THEN LET a == PlainTextArticle(url, hint, t)
         IN  [result |-> Ok(a, "network", {"disk_write"}),
              file |-> WriteDiskCache(file, a, t, outcome).file]
  ELSE LET a == ExtractHtmlArticle(url, hint, resp.page_title, t)
       IN  IF Unsupported(ContentType(resp))
           THEN [result |-> Err("Unsupported content type", {"disk_write"}),
                 file |-> WriteDiskCache(file, a, t, outcome).file]
           ELSE [result |-> Ok(a, "network", {"disk_write"}),
                 file |-> WriteDiskCache(file, a, t, outcome).file]

LoadArticleFinishPropagates(url, hint, file, t, resp, outcome) ==
  IF resp.kind = "transport_err"
    THEN [result |-> Err("transport", {}), file |-> file]
  ELSE IF resp.kind = "status_err"
    THEN [result |-> Err("HTTP status", {}), file |-> file]
  ELSE IF resp.kind = "body_err"
    THEN [result |-> Err("Response too large", {}), file |-> file]
  ELSE IF resp.kind = "read_err"
    THEN [result |-> Err("read", {}), file |-> file]
  ELSE IF Unsupported(ContentType(resp)) /\ ~Contains(ContentType(resp), "text/plain")
    THEN [result |-> Err("Unsupported content type", {}), file |-> file]
  ELSE LET a == IF Contains(ContentType(resp), "text/plain")
                THEN PlainTextArticle(url, hint, t)
                ELSE ExtractHtmlArticle(url, hint, resp.page_title, t)
           w == WriteDiskCache(file, a, t, outcome)
       IN  [result |-> IF w.ok THEN Ok(a, "network", {"disk_write"})
                       ELSE Err("write", {"disk_write"}),
            file |-> w.file]

\* load_article, lines 124-156: the result and the target file afterwards
LoadArticleFinish(url, hint, file, t, resp, outcome) ==
  IF resp.kind = "transport_err"
    THEN [result |-> Err("transport", {}), file |-> file]
  ELSE IF resp.kind = "status_err"
    THEN [result |-> Err("HTTP status", {}), file |-> file]
  ELSE IF resp.kind = "body_err"
    THEN [result |-> Err("Response too large", {}), file |-> file]
  ELSE IF resp.kind = "read_err"
    THEN [result |-> Err("read", {}), file |-> file]
  ELSE IF Contains(ContentType(resp), "text/plain")
    THEN LET a == PlainTextArticle(url, hint, t)
         IN  [result |-> Ok(a, "network", {"disk_write"}),
              file |-> WriteDiskCache(file, a, t, outcome).file]
  ELSE IF Unsupported(ContentType(resp))
    THEN [result |-> Err("Unsupported content type", {}), file |-> file]
  ELSE LET a == ExtractHtmlArticle(url, hint, resp.page_title, t)
       IN  [result |-> Ok(a, "network", {"disk_write"}),
            file |-> WriteDiskCache(file, a, t, outcome).file]

\* load_article as a whole: its result and the target file afterwards
LoadArticle(url, hint, file, t, build_ok, resp, outcome) ==
  LET start == LoadArticleStart(url, hint, file, t, build_ok)
      finish == LoadArticleFinish(url, hint, file, t, resp, outcome)
  IN  IF start.tag # "Send" THEN [result |-> start, file |-> file]
      ELSE [result |-> [finish.result EXCEPT !.ops = start.ops \cup finish.result.ops],
            file |-> finish.file]

(***************************************************************************)
(* The reader session and the handlers of AppState (main.rs).              *)
(***************************************************************************)
Loading == [tag |-> "Loading", article |-> None, message |-> ""]

Ready(article) == [tag |-> "Ready", article |-> Some(article), message |-> ""]

Error(message) == [tag |-> "Error", article |-> None, message |-> message]

ReaderSession(url, title_hint, state) ==
  [url |-> url, title_hint |-> title_hint, state |-> state]

Task(url, hint, pc) == [url |-> url, hint |-> hint, pc |-> pc]

Spawned(bag, task) == bag (+) SetToBag({task})

Finished(bag, task) == bag (-) SetToBag({task})

\* The order of last touches, kept beside the program's own record.
LastTouched(seq, url) == Append(SelectSeq(seq, LAMBDA u : u # url), url)

\* op: the step; url, tag, tier, article: of the load_article result or the
\* memory hit; ops: the file and network operations the step performed.
Event(op, url, tag, tier, ops, article) ==
  [op |-> op, url |-> url, tag |-> tag, tier |-> tier, ops |-> ops,
   article |-> article]

NoEvent == Event("quiet", 0, "none", "none", {}, None)

CompletionForgetsCache(session, cache, order, url, result) ==
  IF session = None
    THEN [reader |-> session, cache |-> cache, order |-> order, inserted |-> FALSE]
  ELSE IF Unwrap(session).url # url
    THEN [reader |-> session, cache |-> cache, order |-> order, inserted |-> FALSE]
  ELSE IF result.tag = "Ok"
    THEN [reader |-> Some([Unwrap(session) EXCEPT
                             !.state = Ready(Unwrap(result.article))]),
          cache |-> cache, order |-> order, inserted |-> FALSE]
  ELSE [reader |-> Some([Unwrap(session) EXCEPT !.state = Error(result.message)]),
        cache |-> cache, order |-> order, inserted |-> FALSE]

CompletionIgnoresUrl(session, cache, order, url, result) ==
  IF session = None
    THEN [reader |-> session, cache |-> cache, order |-> order,
          inserted |-> FALSE]
  ELSE IF result.tag = "Ok"
    THEN LET c == CacheReaderArticle(cache, order, url, Unwrap(result.article))
         IN  [reader |-> Some([Unwrap(session) EXCEPT
                                 !.state = Ready(Unwrap(result.article))]),
              cache |-> c.cache, order |-> c.order, inserted |-> TRUE]
  ELSE [reader |-> Some([Unwrap(session) EXCEPT !.state = Error(result.message)]),
        cache |-> cache, order |-> order, inserted |-> FALSE]

CompletionSwallowsError(session, cache, order, url, result) ==
  IF session = None
    THEN [reader |-> session, cache |-> cache, order |-> order,
          inserted |-> FALSE]
  ELSE IF Unwrap(session).url # url
    THEN [reader |-> session, cache |-> cache, order |-> order,
          inserted |-> FALSE]
  ELSE IF result.tag = "Ok"
    THEN LET c == CacheReaderArticle(cache, order, url, Unwrap(result.article))
         IN  [reader |-> Some([Unwrap(session) EXCEPT
                                 !.state = Ready(Unwrap(result.article))]),
              cache |-> c.cache, order |-> c.order, inserted |-> TRUE]
  ELSE [reader |-> session, cache |-> cache, order |-> order, inserted |-> FALSE]

\* open_reader, lines 639-657: the closure run when load_article returns
Completion(session, cache, order, url, result) ==
  IF session = None
    THEN [reader |-> session, cache |-> cache, order |-> order,
          inserted |-> FALSE]
  ELSE IF Unwrap(session).url # url
    THEN [reader |-> session, cache |-> cache, order |-> order,
          inserted |-> FALSE]
  ELSE IF result.tag = "Ok"
    THEN LET c == CacheReaderArticle(cache, order, url, Unwrap(result.article))
         IN  [reader |-> Some([Unwrap(session) EXCEPT
                                 !.state = Ready(Unwrap(result.article))]),
              cache |-> c.cache, order |-> c.order, inserted |-> TRUE]
  ELSE [reader |-> Some([Unwrap(session) EXCEPT !.state = Error(result.message)]),
        cache |-> cache, order |-> order, inserted |-> FALSE]

\* The step-by-step file system below is not in use.
FsOff ==
  /\ fsDir = <<>>
  /\ fsData = <<>>
  /\ writers = <<>>
  /\ rd = <<>>
  /\ fsEnv = <<>>
  /\ call = <<>>

WarmCache == [u \in 1..SeedLen |-> Article(u, 0, "hint")]

WarmOrder == [i \in 1..SeedLen |-> i]

NoFiles == [u \in InputUrls |-> None]

WarmFiles ==
  [u \in InputUrls |-> IF u \in 1..SeedLen
                       THEN Some(DiskCacheEntry(0, Article(u, 0, "hint")))
                       ELSE None]

\* AppState::new on an empty cache directory
Init ==
  /\ FsOff
  /\ reader = None
  /\ now = 0
  /\ tasks = EmptyBag
  /\ ev = NoEvent
  /\ reader_cache = <<>>
  /\ reader_cache_order = <<>>
  /\ touched = <<>>
  /\ disk = NoFiles

\* The state after the URLs 1..SeedLen were opened, in this order, and loaded
\* within the first second: the cache is full
InitWarm ==
  /\ FsOff
  /\ reader = None
  /\ now = 0
  /\ tasks = EmptyBag
  /\ ev = NoEvent
  /\ reader_cache = WarmCache
  /\ reader_cache_order = WarmOrder
  /\ touched = WarmOrder
  /\ disk = WarmFiles

\* open_reader, lines 614-661, up to cx.spawn
OpenReader(url, title_hint) ==
  LET hit == CachedReaderArticle(reader_cache, reader_cache_order, url)
  IN  IF IsSome(hit.article)
      THEN /\ reader' = Some(ReaderSession(url, title_hint, Ready(Unwrap(hit.article))))
           /\ reader_cache_order' = hit.order
           /\ touched' = LastTouched(touched, url)
           /\ ev' = Event("open_reader", url, "Ok", "memory", {}, hit.article)
           /\ UNCHANGED <<reader_cache, disk, now, tasks, fsVars>>
      ELSE /\ BagCardinality(tasks) < MaxTasks
           /\ tasks' = Spawned(tasks, Task(url, title_hint, "spawned"))
           /\ reader' = Some(ReaderSession(url, title_hint, Loading))
           /\ ev' = Event("open_reader", url, "none", "none", {}, None)
           /\ UNCHANGED <<reader_cache, reader_cache_order, disk, now, touched, fsVars>>

\* The effect of load_article returning `result` in `task`: the closure runs
\* in the same poll of the future.
Complete(task, result) ==
  LET c == Completion(reader, reader_cache, reader_cache_order, task.url, result)
  IN  /\ reader' = c.reader
      /\ reader_cache' = c.cache
      /\ reader_cache_order' = c.order
      /\ touched' = IF c.inserted THEN LastTouched(touched, task.url) ELSE touched
      /\ tasks' = Finished(tasks, task)
      /\ ev' = Event("load_done", task.url, result.tag, result.tier, result.ops,
                     result.article)

\* The spawned future's first poll: load_article up to the request
LoadStart(task, build_ok) ==
  /\ task.pc = "spawned"
  /\ LET r == LoadArticleStart(task.url, task.hint, disk[task.url], now, build_ok)
     IN  IF r.tag = "Send"
         THEN /\ tasks' = Spawned(Finished(tasks, task),
                                  Task(task.url, task.hint, "sent"))
              /\ ev' = Event("load_send", task.url, "none", "none", r.ops, None)
              /\ UNCHANGED <<reader, reader_cache, reader_cache_order, touched>>
         ELSE Complete(task, r)
  /\ UNCHANGED <<disk, now, fsVars>>

LoadFinishRemovesEvicted(task, resp, outcome) ==
  /\ task.pc = "sent"
  /\ LET f == LoadArticleFinish(task.url, task.hint, disk[task.url], now, resp, outcome)
     IN  /\ Complete(task, f.result)
         /\ disk' = [u \in DOMAIN disk |->
                       IF u \in DOMAIN reader_cache /\ u \notin DOMAIN reader_cache'
                       THEN None
                       ELSE IF u = task.url THEN f.file ELSE disk[u]]
  /\ UNCHANGED <<now, fsVars>>

\* The response arrives: the rest of load_article, then the closure
LoadFinish(task, resp, outcome) ==
  /\ task.pc = "sent"
  /\ LET f == LoadArticleFinish(task.url, task.hint, disk[task.url], now, resp, outcome)
     IN  /\ disk' = [disk EXCEPT ![task.url] = f.file]
         /\ Complete(task, f.result)
  /\ UNCHANGED <<now, fsVars>>

\* close_reader
CloseReader ==
  /\ reader' = None
  /\ ev' = NoEvent
  /\ UNCHANGED <<reader_cache, reader_cache_order, disk, now, tasks, touched, fsVars>>

\* select_story, line 181: the reader is closed (the story and its comments
\* are no part of the reader's state)
SelectStory ==
  /\ reader' = None
  /\ ev' = NoEvent
  /\ UNCHANGED <<reader_cache, reader_cache_order, disk, now, tasks, touched, fsVars>>

\* The clock advances.
Tick(d) ==
  /\ \/ d = 1 /\ now % BigStep < MaxFineTicks
     \/ d = BigStep /\ now + BigStep <= MaxBigTicks * BigStep + MaxFineTicks
  /\ now' = now + d
  /\ ev' = NoEvent
  /\ UNCHANGED <<reader, reader_cache, reader_cache_order, disk, tasks, touched,
                 fsVars>>

\* Something outside the program removes or damages a cache file.
DamageFile(url, how) ==
  /\ disk[url] # None
  /\ Unwrap(disk[url]).valid
  /\ disk' = [disk EXCEPT ![url] = IF how = "remove" THEN None ELSE Some(CorruptEntry)]
  /\ ev' = NoEvent
  /\ UNCHANGED <<reader, reader_cache, reader_cache_order, now, tasks, touched,
                 fsVars>>

Next ==
  \/ \E url \in InputUrls, hint \in TitleHints : OpenReader(url, hint)
  \/ \E task \in BagToSet(tasks), build_ok \in BOOLEAN : LoadStart(task, build_ok)
  \/ \E task \in BagToSet(tasks), resp \in Responses :
       \E outcome \in IF Extracts(resp) THEN WriteOutcomes ELSE {"ok"} :
         LoadFinish(task, resp, outcome)
  \/ CloseReader
  \/ SelectStory
  \/ \E d \in {1, BigStep} : Tick(d)
  \/ \E url \in InputUrls, how \in {"remove", "corrupt"} : DamageFile(url, how)

Spec == Init /\ [][Next]_vars

SpecWarm == InitWarm /\ [][Next]_vars

\* Every spawned load_article call eventually completes: the executor polls
\* every detached task, the transport answers every request (with a response
\* or an error) and reading the body ends.
LoadsComplete ==
  \A url \in InputUrls, hint \in TitleHints :
    /\ WF_vars(/\ Task(url, hint, "spawned") \in BagToSet(tasks)
               /\ \E build_ok \in BOOLEAN :
                    LoadStart(Task(url, hint, "spawned"), build_ok))
    /\ WF_vars(/\ Task(url, hint, "sent") \in BagToSet(tasks)
               /\ \E resp \in Responses :
                    \E outcome \in IF Extracts(resp) THEN WriteOutcomes ELSE {"ok"} :
                      LoadFinish(Task(url, hint, "sent"), resp, outcome))

\* The steps of the application with the clock moving a day at a time and
\* nothing outside the program touching the cache files.
NextLive ==
  \/ \E url \in InputUrls, hint \in TitleHints : OpenReader(url, hint)
  \/ \E task \in BagToSet(tasks), build_ok \in BOOLEAN : LoadStart(task, build_ok)
  \/ \E task \in BagToSet(tasks), resp \in Responses :
       \E outcome \in IF Extracts(resp) THEN WriteOutcomes ELSE {"ok"} :
         LoadFinish(task, resp, outcome)
  \/ CloseReader
  \/ SelectStory
  \/ Tick(BigStep)

SpecLive == Init /\ [][NextLive]_vars /\ LoadsComplete

(***************************************************************************)
(* The disk cache of one URL, one file-system call at a time                *)
(* (reader.rs, read_disk_cache and write_disk_cache).  Several calls run   *)
(* at once when several reader processes share the cache directory.        *)
(* A file is an inode; fs::write puts an entry's bytes there in            *)
(* WriteChunks write calls, and a reader that has opened a file keeps      *)
(* reading its inode whatever happens to the path.                         *)
(***************************************************************************)
TargetPath == "target"

TmpPathIsTarget == "target"

\* path.with_extension("json.tmp"): the same for every call for this URL
TmpPath == "tmp"

Paths == {"target", "tmp"}

WriterIds == 1..NumWriters

\* The entry on disk before any of the calls: entries are named by the call
\* that wrote them.
PrevEntryId == NumWriters + 1

EntryIds == 1..PrevEntryId

Inodes == 1..(NumWriters + 2)

Chunk(w, k) == [w |-> w, k |-> k]

\* The bytes of a file never written at this offset.
Hole == Chunk(0, 0)

\* serde_json::to_vec(&entry)
Bytes(w) == [k \in 1..WriteChunks |-> Chunk(w, k)]

\* serde_json::from_slice(&bytes).ok(): the entry, when the bytes are one
ParseEntry(bytes) ==
  IF \E w \in EntryIds : bytes = Bytes(w)
  THEN Some(CHOOSE w \in EntryIds : bytes = Bytes(w))
  ELSE None

\* write(2) of one chunk at offset k
WriteAt(content, k, chunk) ==
  [i \in 1..(IF Len(content) > k THEN Len(content) ELSE k) |->
     IF i = k THEN chunk ELSE IF i <= Len(content) THEN content[i] ELSE Hole]

WriterState(pc, fd, k) == [pc |-> pc, fd |-> fd, k |-> k]

ReaderState(pc, fd, buf, kind, w) ==
  [pc |-> pc, fd |-> fd, buf |-> buf, result |-> [kind |-> kind, w |-> w]]

ReaderIdle == ReaderState("idle", 0, <<>>, "pending", 0)

\* The inodes a path or an open file refers to.
Referenced(dir, ws, r) ==
  ({dir[p] : p \in Paths} \cup {ws[w].fd : w \in WriterIds} \cup {r.fd}) \ {0}

\* An inode nothing refers to is freed.
Collect(data, refs) == [i \in Inodes |-> IF i \in refs THEN data[i] ELSE <<>>]

FreeInode ==
  CHOOSE i \in Inodes \ Referenced(fsDir, writers, rd) :
    \A j \in Inodes \ Referenced(fsDir, writers, rd) : i <= j

Fault(env) == [env EXCEPT !.faulted = TRUE]

FsStep(dir, data, ws, r, env) ==
  /\ fsDir' = dir
  /\ writers' = ws
  /\ rd' = r
  /\ fsEnv' = env
  /\ fsData' = Collect(data, Referenced(dir, ws, r))
  /\ UNCHANGED <<appVars, call>>

\* rename(from, to): `to` names the inode of `from`, `from` names nothing
Renamed(dir, from, to) ==
  [p \in Paths |-> IF p = to THEN dir[from] ELSE IF p = from THEN 0 ELSE dir[p]]

\* write_disk_cache is called (lines 196-206 touch no file of the URL).  In
\* the exclusive schedule a call starts only when no other is in progress.
WriteBegin(w) ==
  /\ writers[w].pc = "idle"
  /\ fsEnv.exclusive => \A v \in WriterIds : writers[v].pc \in {"idle", "ok", "err"}
  /\ FsStep(fsDir, fsData, [writers EXCEPT ![w] = WriterState("open", 0, 0)], rd, fsEnv)

\* fs::write(&tmp_path, json), line 208: the file is created or truncated
WriteOpen(w) ==
  /\ writers[w].pc = "open"
  /\ LET i == IF fsDir[TmpPath] # 0 THEN fsDir[TmpPath] ELSE FreeInode
     IN  FsStep([fsDir EXCEPT ![TmpPath] = i], [fsData EXCEPT ![i] = <<>>],
                [writers EXCEPT ![w] = WriterState("write", i, 0)], rd, fsEnv)

\* fs::write, line 208: the next chunk; after the last the file is closed
WriteChunk(w) ==
  /\ writers[w].pc = "write"
  /\ LET k == writers[w].k + 1
         i == writers[w].fd
     IN  FsStep(fsDir, [fsData EXCEPT ![i] = WriteAt(fsData[i], k, Chunk(w, k))],
                [writers EXCEPT ![w] = IF k = WriteChunks
                                       THEN WriterState("rename", 0, k)
                                       ELSE WriterState("write", i, k)],
                rd, fsEnv)

\* fs::rename(&tmp_path, &path), line 209.  It fails when there is no
\* temporary file; `refused` is a platform that does not replace an
\* existing target.
WriteRename(w, refused) ==
  /\ writers[w].pc = "rename"
  /\ refused => fsDir[TargetPath] # 0
  /\ IF fsDir[TmpPath] = 0 \/ refused
     THEN FsStep(fsDir, fsData, [writers EXCEPT ![w] = WriterState("remove", 0, 0)], rd,
                 IF refused THEN Fault(fsEnv) ELSE fsEnv)
     ELSE FsStep(Renamed(fsDir, TmpPath, TargetPath), fsData,
                 [writers EXCEPT ![w] = WriterState("ok", 0, 0)], rd,
                 [fsEnv EXCEPT !.last = w])

\* let _ = fs::remove_file(&path), line 210; `refused`: it fails
WriteRemove(w, refused) ==
  /\ writers[w].pc = "remove"
  /\ refused => fsDir[TargetPath] # 0
  /\ FsStep(IF refused THEN fsDir ELSE [fsDir EXCEPT ![TargetPath] = 0], fsData,
            [writers EXCEPT ![w] = WriterState("rename2", 0, 0)], rd,
            IF refused THEN Fault(fsEnv) ELSE fsEnv)

\* fs::rename(&tmp_path, &path), line 211: the error of the first rename is
\* returned when this one fails too
WriteRenameAgain(w, refused) ==
  /\ writers[w].pc = "rename2"
  /\ refused => fsDir[TargetPath] # 0
  /\ IF fsDir[TmpPath] = 0 \/ refused
     THEN FsStep(fsDir, fsData, [writers EXCEPT ![w] = WriterState("err", 0, 0)], rd,
                 IF refused THEN Fault(fsEnv) ELSE fsEnv)
     ELSE FsStep(Renamed(fsDir, TmpPath, TargetPath), fsData,
                 [writers EXCEPT ![w] = WriterState("ok", 0, 0)], rd,
                 [fsEnv EXCEPT !.last = w])

\* read_disk_cache, line 187: fs::read opens the target
ReadOpen ==
  /\ rd.pc = "idle"
  /\ FsStep(fsDir, fsData, writers,
            IF fsDir[TargetPath] = 0
            THEN ReaderState("done", 0, <<>>, "absent", 0)
            ELSE ReaderState("read", fsDir[TargetPath], <<>>, "pending", 0),
            fsEnv)

\* fs::read, line 187, reads on to the end of the file; line 188 parses
ReadChunk ==
  /\ rd.pc = "read"
  /\ LET content == fsData[rd.fd]
         n == Len(rd.buf)
         entry == ParseEntry(rd.buf)
     IN  FsStep(fsDir, fsData, writers,
                IF n < Len(content)
                THEN ReaderState("read", rd.fd, Append(rd.buf, content[n + 1]), "pending", 0)
                ELSE IF IsSome(entry)
                THEN ReaderState("done", 0, rd.buf, "entry", Unwrap(entry))
                ELSE ReaderState("done", 0, rd.buf, "corrupt", 0),
                fsEnv)

\* read_disk_cache returns
ReadReturn ==
  /\ rd.pc = "done"
  /\ FsStep(fsDir, fsData, writers, ReaderIdle, fsEnv)

\* The cache directory holds no entry for the URL, or a complete earlier one.
InitFiles(exclusive) ==
  /\ reader = None
  /\ now = 0
  /\ tasks = EmptyBag
  /\ ev = NoEvent
  /\ reader_cache = <<>>
  /\ reader_cache_order = <<>>
  /\ touched = <<>>
  /\ disk = NoFiles
  /\ \E had \in BOOLEAN :
       /\ fsDir = [p \in Paths |-> IF had /\ p = TargetPath THEN 1 ELSE 0]
       /\ fsData = [i \in Inodes |-> IF had /\ i = 1 THEN Bytes(PrevEntryId) ELSE <<>>]
  /\ writers = [w \in WriterIds |-> WriterState("idle", 0, 0)]
  /\ rd = ReaderIdle
  /\ fsEnv = [exclusive |-> exclusive, faulted |-> FALSE, last |-> 0]
  /\ call = <<>>

NextFs ==
  \/ \E w \in WriterIds : WriteBegin(w)
  \/ \E w \in WriterIds : WriteOpen(w)
  \/ \E w \in WriterIds : WriteChunk(w)
  \/ \E w \in WriterIds, refused \in BOOLEAN : WriteRename(w, refused)
  \/ \E w \in WriterIds, refused \in BOOLEAN : WriteRemove(w, refused)
  \/ \E w \in WriterIds, refused \in BOOLEAN : WriteRenameAgain(w, refused)
  \/ ReadOpen
  \/ ReadChunk
  \/ ReadReturn

\* write_disk_cache calls one after the other, read_disk_cache at any time
SpecSwap == InitFiles(TRUE) /\ [][NextFs]_vars

\* write_disk_cache calls for the same URL at the same time
SpecFs == InitFiles(FALSE) /\ [][NextFs]_vars

(***************************************************************************)
(* read_disk_cache and is_cache_stale on their own: one call on an entry   *)
(* of any age near the TTL, at a system time that now_unix_secs can or     *)
(* cannot read.                                                            *)
(***************************************************************************)
\* The application is not running and no file-system call is in progress.
Idle ==
  /\ reader = None
  /\ now = 0
  /\ tasks = EmptyBag
  /\ ev = NoEvent
  /\ reader_cache = <<>>
  /\ reader_cache_order = <<>>
  /\ touched = <<>>
  /\ disk = NoFiles
  /\ fsDir = <<>>
  /\ fsData = <<>>
  /\ writers = <<>>
  /\ rd = <<>>
  /\ fsEnv = <<>>

BeforeEpoch == 0 - 1

SystemTimes == {day * DISK_CACHE_TTL_SECS : day \in 1..MaxDays} \cup {BeforeEpoch}

FetchedAts ==
  {day * DISK_CACHE_TTL_SECS - DISK_CACHE_TTL_SECS + d :
     day \in 1..MaxDays, d \in (0 - MaxDelta)..MaxDelta}

InitStale ==
  /\ Idle
  /\ \E t \in SystemTimes, fetched_at \in FetchedAts :
       call = [op |-> "input", t |-> t, fetched_at |-> fetched_at,
               stale |-> FALSE, result |-> None]

\* read_disk_cache on a file that holds an entry with call.fetched_at
ReadEntry ==
  /\ call.op = "input"
  /\ call' = [call EXCEPT
                !.op = "read_disk_cache",
                !.stale = IsCacheStale(call.t, call.fetched_at),
                !.result = ReadDiskCache(
                             Some(DiskCacheEntry(call.fetched_at,
                                                 Article(1, call.fetched_at, "hint"))),
                             call.t)]
  /\ UNCHANGED <<appVars, fsDir, fsData, writers, rd, fsEnv>>

NextStale == ReadEntry

SpecStale == InitStale /\ [][NextStale]_vars

(***************************************************************************)
(* load_article on its own: one call, on any state of the URL's cache file *)
(* and any answer of the transport.                                        *)
(***************************************************************************)
\* The content-type headers a server can send: none, an empty one, the
\* media types the code knows with and without parameters, other media
\* types, one that names text/html in a parameter only, one in capitals,
\* one that is not visible ASCII.
LoadContentTypes ==
  {None, Some(HeaderValue(TRUE, <<>>)), Some(HeaderValue(FALSE, <<"application/pdf">>))}
  \cup {Some(HeaderValue(TRUE, value)) :
          value \in {<<"text/plain">>, <<"text/html">>,
                     <<"text/html", "; charset=utf-8">>,
                     <<"application/xhtml+xml">>, <<"application/pdf">>,
                     <<"application/json">>, <<"TEXT/HTML">>,
                     <<"application/pdf", "; profile=", "text/html">>}}

\* The transport fails; or the status is not 2xx; or the status is 2xx and
\* the body is read in full ("ok"), is over the limit ("body_err") or fails
\* to read ("read_err").
LoadResponses ==
  [kind : {"transport_err", "status_err"}, ctype : {None}, page_title : {None}]
  \cup [kind : {"ok", "body_err", "read_err"}, ctype : LoadContentTypes,
        page_title : {None, Some("page")}]

\* The cache file of the URL at the time of the call `now`: none, one that
\* does not parse, a fresh and a stale entry.
LoadFiles(t) ==
  LET at == IF t = BeforeEpoch THEN MaxDays * DISK_CACHE_TTL_SECS ELSE t
  IN  {None, Some(CorruptEntry),
       Some(DiskCacheEntry(at, Article(1, at, "old"))),
       Some(DiskCacheEntry(at, Article(1, at, ""))),
       Some(DiskCacheEntry(at - DISK_CACHE_TTL_SECS - 1,
                           Article(1, at - DISK_CACHE_TTL_SECS - 1, "old")))}

InitLoad ==
  /\ Idle
  /\ \E hint \in {None, Some("hint")},
        t \in {MaxDays * DISK_CACHE_TTL_SECS, BeforeEpoch},
        resp \in LoadResponses, outcome \in WriteOutcomes, build_ok \in BOOLEAN :
       \E file \in LoadFiles(t) :
         \* the choices that no call looks at take one value
         /\ ~Extracts(resp) => outcome = "ok"
         /\ ~build_ok => resp.kind = "transport_err"
         /\ call = [op |-> "input", url |-> 1, hint |-> hint, file |-> file, t |-> t,
                    build_ok |-> build_ok, resp |-> resp, outcome |-> outcome,
                    result |-> Pending({}), file_after |-> file]

\* load_article(http_client, url, title_hint)
CallLoadArticle ==
  /\ call.op = "input"
  /\ LET r == LoadArticle(call.url, call.hint, call.file, call.t, call.build_ok,
                          call.resp, call.outcome)
     IN  call' = [call EXCEPT !.op = "load_article", !.result = r.result,
                              !.file_after = r.file]
  /\ UNCHANGED <<appVars, fsDir, fsData, writers, rd, fsEnv>>

NextLoad == CallLoadArticle

SpecLoad == InitLoad /\ [][NextLoad]_vars

(***************************************************************************)
(* read_to_end_limited, one turn of its loop at a time.  `total` and       *)
(* `bytes` (its length) are the function's variables; the body has         *)
(* body_len bytes, of which `total` have been handed out.                  *)
(***************************************************************************)
ReadLoopAtLimit(st, n, limit) ==
  IF n = 0 THEN [st EXCEPT !.op = "returned", !.result = "Ok"]
  ELSE IF st.total + n >= limit
    THEN [st EXCEPT !.op = "returned", !.result = "TooLarge", !.total = st.total + n]
  ELSE [st EXCEPT !.total = st.total + n, !.bytes = st.bytes + n]

\* Lines 163-175, after body.read returned Ok(n).  (saturating_add is the
\* plain sum: total stays far below usize::MAX.)
ReadLoop(st, n, limit) ==
  IF n = 0 THEN [st EXCEPT !.op = "returned", !.result = "Ok"]
  ELSE IF st.total + n > limit
    THEN [st EXCEPT !.op = "returned", !.result = "TooLarge", !.total = st.total + n]
  ELSE [st EXCEPT !.total = st.total + n, !.bytes = st.bytes + n]

\* Body lengths around the limit, and small ones.
BodyLens ==
  {0, 1, ReadBufLen, ReadBufLen + 1, MAX_HTML_BYTES - 1, MAX_HTML_BYTES,
   MAX_HTML_BYTES + 1, MAX_HTML_BYTES + ReadBufLen}

InitRead ==
  /\ Idle
  /\ \E body_len \in BodyLens :
       call = [op |-> "reading", body_len |-> body_len, total |-> 0, bytes |-> 0,
               short |-> 0, result |-> "none"]

\* body.read(&mut buf) returns Ok(n): all that fits the buffer, or one byte;
\* 0 at the end of the body
ReadSome(n) ==
  /\ call.op = "reading"
  /\ \/ n = call.body_len - call.total /\ n <= ReadBufLen
     \/ n = ReadBufLen /\ n < call.body_len - call.total
     \/ n = 1 /\ n < call.body_len - call.total /\ call.short < MaxShortReads
  /\ call' = ReadLoop([call EXCEPT !.short = IF n = 1 /\ n < call.body_len - call.total
                                             THEN call.short + 1 ELSE call.short],
                      n, MAX_HTML_BYTES)
  /\ UNCHANGED <<appVars, fsDir, fsData, writers, rd, fsEnv>>

\* body.read(&mut buf) returns Err: line 163 returns it
ReadFails ==
  /\ call.op = "reading"
  /\ call' = [call EXCEPT !.op = "returned", !.result = "ReadErr"]
  /\ UNCHANGED <<appVars, fsDir, fsData, writers, rd, fsEnv>>

NextRead ==
  \/ \E n \in {0, 1, ReadBufLen} \cup {b % ReadBufLen : b \in BodyLens} : ReadSome(n)
  \/ ReadFails

SpecRead == InitRead /\ [][NextRead]_vars

(***************************************************************************)
(* The disk cache file format: serde_json::to_vec and                      *)
(* serde_json::from_slice on the derived Serialize and Deserialize of      *)
(* DiskCacheEntry, ReaderArticle and ReaderBlock (reader.rs, 60-91 and     *)
(* 179-183).  A file is a sequence of characters; a run of characters that *)
(* JSON writes as they are (a letter, a word, a digit) is one element, and *)
(* the characters JSON escapes are elements of their own.  A Rust String   *)
(* is a sequence of such elements.                                         *)
(***************************************************************************)
DQuote == "QUOTE"

Backslash == "BACKSLASH"

Newline == "LF"

Nul == "NUL"

ReaderArticle(title, byline, site_name, reading_time, blocks) ==
  [title |-> title, byline |-> byline, site_name |-> site_name,
   reading_time |-> reading_time, blocks |-> blocks]

Heading(level, text) == [kind |-> "Heading", level |-> level, text |-> text]

Paragraph(text) == [kind |-> "Paragraph", text |-> text]

Quote(text) == [kind |-> "Quote", text |-> text]

List(ordered, items) == [kind |-> "List", ordered |-> ordered, items |-> items]

Code(text, language) == [kind |-> "Code", text |-> text, language |-> language]

Image(url, alt, caption) ==
  [kind |-> "Image", url |-> url, alt |-> alt, caption |-> caption]

Rule == [kind |-> "Rule"]

EscapeCharRaw(c) == <<c>>

\* serde_json's string escapes
EscapeChar(c) ==
  IF c = DQuote THEN <<Backslash, DQuote>>
  ELSE IF c = Backslash THEN <<Backslash, Backslash>>
  ELSE IF c = Newline THEN <<Backslash, "n">>
  ELSE IF c = Nul THEN <<Backslash, "u0000">>
  ELSE <<c>>

RECURSIVE EscapeStr(_)
EscapeStr(str) ==
  IF str = <<>> THEN <<>> ELSE EscapeChar(Head(str)) \o EscapeStr(Tail(str))

SerializeStr(str) == <<DQuote>> \o EscapeStr(str) \o <<DQuote>>

\* Option<String>: null or the string
SerializeOption(o) == IF o = None THEN <<"null">> ELSE SerializeStr(Unwrap(o))

SerializeBool(b) == IF b THEN <<"true">> ELSE <<"false">>

DigitChars == <<"0", "1", "2", "3", "4", "5", "6", "7", "8", "9">>

RECURSIVE Digits(_)
Digits(n) ==
  IF n < 10 THEN <<DigitChars[n + 1]>>
  ELSE Digits(n \div 10) \o <<DigitChars[(n % 10) + 1]>>

SerializeInt(n) == IF n < 0 THEN <<"-">> \o Digits(0 - n) ELSE Digits(n)

RECURSIVE Join(_)
Join(xs) ==
  IF xs = <<>> THEN <<>>
  ELSE IF Len(xs) = 1 THEN xs[1]
  ELSE xs[1] \o <<",">> \o Join(Tail(xs))

JsonArray(xs) == <<"[">> \o Join(xs) \o <<"]">>

\* fields: a sequence of <<name, value>>
JsonObject(fields) ==
  <<"{">>
  \o Join([k \in 1..Len(fields) |->
             <<DQuote, fields[k][1], DQuote, ":">> \o fields[k][2]])
  \o <<"}">>

\* An enum variant with content is an object with the variant's name as its
\* only key; a unit variant is its name as a string.
SerializeBlock(b) ==
  IF b.kind = "Heading"
    THEN JsonObject(<< <<"Heading",
           JsonObject(<< <<"level", SerializeInt(b.level)>>,
                         <<"text", SerializeStr(b.text)>> >>)>> >>)
  ELSE IF b.kind = "Paragraph"
    THEN JsonObject(<< <<"Paragraph", SerializeStr(b.text)>> >>)
  ELSE IF b.kind = "Quote"
    THEN JsonObject(<< <<"Quote", SerializeStr(b.text)>> >>)
  ELSE IF b.kind = "List"
    THEN JsonObject(<< <<"List",
           JsonObject(<< <<"ordered", SerializeBool(b.ordered)>>,
                         <<"items", JsonArray([k \in 1..Len(b.items) |->
                                                 SerializeStr(b.items[k])])>> >>)>> >>)
  ELSE IF b.kind = "Code"
    THEN JsonObject(<< <<"Code",
           JsonObject(<< <<"text", SerializeStr(b.text)>>,
                         <<"language", SerializeOption(b.language)>> >>)>> >>)
  ELSE IF b.kind = "Image"
    THEN JsonObject(<< <<"Image",
           JsonObject(<< <<"url", SerializeStr(b.url)>>,
                         <<"alt", SerializeOption(b.alt)>>,
                         <<"caption", SerializeOption(b.caption)>> >>)>> >>)
  ELSE SerializeStr(<<"Rule">>)

SerializeArticle(a) ==
  JsonObject(<< <<"title", SerializeStr(a.title)>>,
                <<"byline", SerializeOption(a.byline)>>,
                <<"site_name", SerializeOption(a.site_name)>>,
                <<"reading_time", SerializeOption(a.reading_time)>>,
                <<"blocks", JsonArray([k \in 1..Len(a.blocks) |->
                                         SerializeBlock(a.blocks[k])])>> >>)

\* serde_json::to_vec(&entry)
ToVec(entry) ==
  JsonObject(<< <<"fetched_at", SerializeInt(entry.fetched_at)>>,
                <<"article", SerializeArticle(entry.article)>> >>)

\* The parser: each function reads one value at position i and gives the
\* value and the position after it, or fails.  Object fields are read in
\* the order the serializer writes them.
ParseOk(val, pos) == [ok |-> TRUE, val |-> val, pos |-> pos]

ParseFail == [ok |-> FALSE, val |-> <<>>, pos |-> 0]

At(s, i) == IF i \in 1..Len(s) THEN s[i] ELSE "EOF"

IsDigit(c) == \E d \in 1..10 : DigitChars[d] = c

DigitVal(c) == (CHOOSE d \in 1..10 : DigitChars[d] = c) - 1

RECURSIVE DeserializeStrBody(_, _, _)
DeserializeStrBody(s, i, acc) ==
  LET c == At(s, i)
      d == At(s, i + 1)
  IN  IF c = DQuote THEN ParseOk(acc, i + 1)
      ELSE IF c \in {"EOF", Newline, Nul} THEN ParseFail
      ELSE IF c # Backslash THEN DeserializeStrBody(s, i + 1, Append(acc, c))
      ELSE IF d = DQuote THEN DeserializeStrBody(s, i + 2, Append(acc, DQuote))
      ELSE IF d = Backslash THEN DeserializeStrBody(s, i + 2, Append(acc, Backslash))
      ELSE IF d = "n" THEN DeserializeStrBody(s, i + 2, Append(acc, Newline))
      ELSE IF d = "u0000" THEN DeserializeStrBody(s, i + 2, Append(acc, Nul))
      ELSE ParseFail

DeserializeStr(s, i) ==
  IF At(s, i) = DQuote THEN DeserializeStrBody(s, i + 1, <<>>) ELSE ParseFail

DeserializeOption(s, i) ==
  IF At(s, i) = "null" THEN ParseOk(None, i + 1)
  ELSE LET r == DeserializeStr(s, i)
       IN  IF r.ok THEN ParseOk(Some(r.val), r.pos) ELSE ParseFail

DeserializeBool(s, i) ==
  IF At(s, i) = "true" THEN ParseOk(TRUE, i + 1)
  ELSE IF At(s, i) = "false" THEN ParseOk(FALSE, i + 1)
  ELSE ParseFail

RECURSIVE DeserializeDigits(_, _, _)
DeserializeDigits(s, i, acc) ==
  IF IsDigit(At(s, i))
  THEN DeserializeDigits(s, i + 1, acc * 10 + DigitVal(At(s, i)))
  ELSE ParseOk(acc, i)

\* i64: an optional sign and digits, no leading zero
DeserializeInt(s, i) ==
  LET j == IF At(s, i) = "-" THEN i + 1 ELSE i
      r == DeserializeDigits(s, j, 0)
  IN  IF ~IsDigit(At(s, j)) THEN ParseFail
      ELSE IF At(s, j) = "0" /\ IsDigit(At(s, j + 1)) THEN ParseFail
      ELSE IF j = i THEN r
      ELSE ParseOk(0 - r.val, r.pos)

\* u8
DeserializeU8(s, i) ==
  LET r == DeserializeInt(s, i)
  IN  IF r.ok /\ r.val \in 0..255 THEN r ELSE ParseFail

\* The position of the value of the field `name`, which follows `lead`
\* ("{" for an object's first field, "," for the others); 0, where every
\* parser fails, when the field is not there.
FieldAt(s, i, lead, name) ==
  IF /\ At(s, i) = lead
     /\ At(s, i + 1) = DQuote
     /\ At(s, i + 2) = name
     /\ At(s, i + 3) = DQuote
     /\ At(s, i + 4) = ":"
  THEN i + 5 ELSE 0

\* The end of an object that gave val.
Close(s, i, val) == IF At(s, i) = "}" THEN ParseOk(val, i + 1) ELSE ParseFail

\* The fields of the structs and of the struct variants, with their types.
HeadingFields == << <<"level", "u8">>, <<"text", "String">> >>

ListFields == << <<"ordered", "bool">>, <<"items", "Vec<String>">> >>

CodeFields == << <<"text", "String">>, <<"language", "Option<String>">> >>

ImageFields ==
  << <<"url", "String">>, <<"alt", "Option<String>">>, <<"caption", "Option<String>">> >>

ReaderArticleFields ==
  << <<"title", "String">>, <<"byline", "Option<String>">>,
     <<"site_name", "Option<String>">>, <<"reading_time", "Option<String>">>,
     <<"blocks", "Vec<ReaderBlock>">> >>

DiskCacheEntryFields == << <<"fetched_at", "i64">>, <<"article", "ReaderArticle">> >>

\* The struct or variant `kind` with the field values vals
Build(kind, vals) ==
  IF kind = "Heading" THEN Heading(vals[1], vals[2])
  ELSE IF kind = "List" THEN List(vals[1], vals[2])
  ELSE IF kind = "Code" THEN Code(vals[1], vals[2])
  ELSE IF kind = "Image" THEN Image(vals[1], vals[2], vals[3])
  ELSE IF kind = "ReaderArticle"
    THEN ReaderArticle(vals[1], vals[2], vals[3], vals[4], vals[5])
  ELSE [fetched_at |-> vals[1], article |-> vals[2]]

RECURSIVE DeserializeStrItems(_, _, _)
DeserializeStrItems(s, i, acc) ==
  CHOOSE out \in
    {IF ~r.ok THEN ParseFail
     ELSE IF At(s, r.pos) = "," THEN DeserializeStrItems(s, r.pos + 1, Append(acc, r.val))
     ELSE IF At(s, r.pos) = "]" THEN ParseOk(Append(acc, r.val), r.pos + 1)
     ELSE ParseFail : r \in {DeserializeStr(s, i)}} : TRUE

\* Vec<String>
DeserializeStrVec(s, i) ==
  IF At(s, i) # "[" THEN ParseFail
  ELSE IF At(s, i + 1) = "]" THEN ParseOk(<<>>, i + 2)
  ELSE DeserializeStrItems(s, i + 1, <<>>)

RECURSIVE DeserializeValue(_, _, _)
RECURSIVE DeserializeFields(_, _, _, _, _)
RECURSIVE DeserializeBlockItems(_, _, _)

\* A struct: its fields one after the other, each value read once
DeserializeFields(s, i, fields, vals, kind) ==
  IF fields = <<>> THEN Close(s, i, Build(kind, vals))
  ELSE CHOOSE out \in
         {IF r.ok
          THEN DeserializeFields(s, r.pos, Tail(fields), Append(vals, r.val), kind)
          ELSE ParseFail :
            r \in {DeserializeValue(
                     s, FieldAt(s, i, IF vals = <<>> THEN "{" ELSE ",", fields[1][1]),
                     fields[1][2])}} : TRUE

\* The content of the variant `name`, which starts at i, and the end of the
\* object that holds it
DeserializeVariant(s, i, name) ==
  CHOOSE out \in
    {IF ~body.ok THEN ParseFail
     ELSE Close(s, body.pos,
                IF name = <<"Paragraph">> THEN Paragraph(body.val)
                ELSE IF name = <<"Quote">> THEN Quote(body.val)
                ELSE body.val) :
       body \in {IF name = <<"Heading">>
                   THEN DeserializeFields(s, i, HeadingFields, <<>>, "Heading")
                 ELSE IF name \in {<<"Paragraph">>, <<"Quote">>}
                   THEN DeserializeStr(s, i)
                 ELSE IF name = <<"List">>
                   THEN DeserializeFields(s, i, ListFields, <<>>, "List")
                 ELSE IF name = <<"Code">>
                   THEN DeserializeFields(s, i, CodeFields, <<>>, "Code")
                 ELSE IF name = <<"Image">>
                   THEN DeserializeFields(s, i, ImageFields, <<>>, "Image")
                 ELSE ParseFail}} : TRUE

\* ReaderBlock: "Rule", or {"<variant>": <content>}
DeserializeBlock(s, i) ==
  CHOOSE out \in
    {IF ~name.ok THEN ParseFail
     ELSE IF At(s, i) = DQuote
       THEN IF name.val = <<"Rule">> THEN ParseOk(Rule, name.pos) ELSE ParseFail
     ELSE IF At(s, i) # "{" \/ At(s, name.pos) # ":" THEN ParseFail
     ELSE DeserializeVariant(s, name.pos + 1, name.val) :
       name \in {DeserializeStr(s, IF At(s, i) = "{" THEN i + 1 ELSE i)}} : TRUE

DeserializeBlockItems(s, i, acc) ==
  CHOOSE out \in
    {IF ~r.ok THEN ParseFail
     ELSE IF At(s, r.pos) = "," THEN DeserializeBlockItems(s, r.pos + 1, Append(acc, r.val))
     ELSE IF At(s, r.pos) = "]" THEN ParseOk(Append(acc, r.val), r.pos + 1)
     ELSE ParseFail : r \in {DeserializeBlock(s, i)}} : TRUE

\* Vec<ReaderBlock>
DeserializeBlocks(s, i) ==
  IF At(s, i) # "[" THEN ParseFail
  ELSE IF At(s, i + 1) = "]" THEN ParseOk(<<>>, i + 2)
  ELSE DeserializeBlockItems(s, i + 1, <<>>)

DeserializeValue(s, i, type) ==
  IF type = "String" THEN DeserializeStr(s, i)
  ELSE IF type = "Option<String>" THEN DeserializeOption(s, i)
  ELSE IF type = "bool" THEN DeserializeBool(s, i)
  ELSE IF type = "u8" THEN DeserializeU8(s, i)
  ELSE IF type = "i64" THEN DeserializeInt(s, i)
  ELSE IF type = "Vec<String>" THEN DeserializeStrVec(s, i)
  ELSE IF type = "Vec<ReaderBlock>" THEN DeserializeBlocks(s, i)
  ELSE DeserializeFields(s, i, ReaderArticleFields, <<>>, "ReaderArticle")

\* serde_json::from_slice::<DiskCacheEntry>(&bytes): the whole file is one entry
FromSlice(s) ==
  CHOOSE out \in
    {IF r.ok /\ r.pos = Len(s) + 1 THEN r ELSE ParseFail :
       r \in {DeserializeFields(s, 1, DiskCacheEntryFields, <<>>, "DiskCacheEntry")}} : TRUE

\* write_disk_cache, lines 201-213, when the file system refuses nothing:
\* the file afterwards and whether the call returned Ok
WriteDiskCacheFile(file, article, t) ==
  LET n == NowUnixSecs(t)
  IN  IF n = None THEN [file |-> file, ok |-> FALSE]
      ELSE [file |-> Some(ToVec([fetched_at |-> Unwrap(n), article |-> article])),
            ok |-> TRUE]

\* read_disk_cache on the bytes of the file
ReadDiskCacheFile(file, t) ==
  IF file = None THEN None
  ELSE LET entry == FromSlice(Unwrap(file))
       IN  IF ~entry.ok THEN None
           ELSE IF IsCacheStale(t, entry.val.fetched_at) THEN None
           ELSE Some(entry.val.article)

\* The articles written: strings with every kind of character, every block
\* variant, present and absent options.
Strings ==
  {<<>>, <<"a">>, <<DQuote>>, <<Backslash>>, <<Newline>>, <<Nul>>,
   <<Backslash, "n">>, <<"a", DQuote, "b">>, <<Backslash, DQuote>>,
   <<"null">>, <<"Rule">>, <<",", "}">>}

Options == {None, Some(<<>>), Some(<<"null">>), Some(<<DQuote, "a">>)}

Blocks ==
  {Heading(1, <<"a">>), Heading(255, <<DQuote>>), Heading(0, <<>>),
   Paragraph(<<"a">>), Paragraph(<<Backslash>>), Paragraph(<<"Rule">>),
   Quote(<<"a", DQuote, "b">>), Quote(<<>>),
   List(TRUE, <<>>), List(FALSE, << <<"a">>, <<DQuote, ",">> >>),
   Code(<<Newline>>, None), Code(<<"a">>, Some(<<"rust">>)),
   Image(<<"u">>, None, None), Image(<<"u">>, Some(<<DQuote>>), Some(<<>>)),
   Rule}

BlockVecs == UNION {[1..n -> Blocks] : n \in 0..MaxBlocks}

InitRoundTrip ==
  /\ Idle
  /\ \E title \in Strings, byline \in Options, more \in Options, blocks \in BlockVecs,
        t \in {DISK_CACHE_TTL_SECS, BeforeEpoch} :
       \* the other options take a few values, the unreadable clock needs no variety
       /\ more \in {None, Some(<<DQuote, "a">>)}
       /\ t = BeforeEpoch => (blocks = <<>> /\ more = None)
       /\ call = [op |-> "input",
               article |-> ReaderArticle(title, byline, more,
                                         IF more = None THEN Some(<<"a", Newline>>) ELSE None,
                                         blocks),
               t_write |-> t, t_read |-> t, file |-> None, ok |-> FALSE,
               result |-> None]

\* write_disk_cache(url, &article)
WriteArticle ==
  /\ call.op = "input"
  /\ LET w == WriteDiskCacheFile(call.file, call.article, call.t_write)
     IN  call' = [call EXCEPT !.op = "written", !.file = w.file, !.ok = w.ok]
  /\ UNCHANGED <<appVars, fsDir, fsData, writers, rd, fsEnv>>

\* Time passes between the write and the read.
Wait(d) ==
  /\ call.op = "written"
  /\ call' = [call EXCEPT !.op = "waited", !.t_read = call.t_write + d]
  /\ UNCHANGED <<appVars, fsDir, fsData, writers, rd, fsEnv>>

\* read_disk_cache(url)
ReadBack ==
  /\ call.op \in {"written", "waited"}
  /\ call' = [call EXCEPT !.op = "read",
                          !.result = ReadDiskCacheFile(call.file, call.t_read)]
  /\ UNCHANGED <<appVars, fsDir, fsData, writers, rd, fsEnv>>

NextRoundTrip ==
  \/ WriteArticle
  \/ \E d \in {DISK_CACHE_TTL_SECS, DISK_CACHE_TTL_SECS + 1} : Wait(d)
  \/ ReadBack

SpecRoundTrip == InitRoundTrip /\ [][NextRoundTrip]_vars

(***************************************************************************)
(* Block extraction (reader.rs).  A text is a sequence of characters:      *)
(* letters, the space, the line feed (white space that is no space) and    *)
(* Wide, a character of three UTF-8 bytes.                                 *)
(***************************************************************************)
MAX_BLOCKS == 300

\* normalize_blocks: .take(100) on the items of a list
MaxListItems == 100

\* extract_paragraphs, split_paragraphs: at most 200 paragraphs
MaxParagraphs == 200

\* extract_blocks, extract_with_readabilityrs: total_text_len(&blocks) < 200
MinTextLen == 200

Space == "SP"

Wide == "WIDE"

\* The full-width comma, three UTF-8 bytes.
WideComma == "WCOMMA"

\* U+00A0, the no-break space: white space of two UTF-8 bytes
Nbsp == "NBSP"

Tab == "TAB"

\* char::is_whitespace
IsWhitespace(c) == c \in {Space, Newline, Tab, Nbsp}

\* str::len: the UTF-8 bytes of the text, three for a Wide character
StrLen(text) ==
  Len(text) + 2 * Cardinality({i \in 1..Len(text) : text[i] \in {Wide, WideComma}})
            + Cardinality({i \in 1..Len(text) : text[i] = Nbsp})

\* str::trim
Trim(text) ==
  LET solid == {i \in 1..Len(text) : ~IsWhitespace(text[i])}
  IN  IF solid = {} THEN <<>>
      ELSE SubSeq(text, CHOOSE i \in solid : \A j \in solid : i <= j,
                        CHOOSE i \in solid : \A j \in solid : j <= i)

\* The characters whose mark says keep, in order.
Kept(marked) ==
  [k \in 1..Len(SelectSeq(marked, LAMBDA m : m.keep)) |->
     SelectSeq(marked, LAMBDA m : m.keep)[k].ch]

\* What the loop of normalize_whitespace pushes, given the indices it
\* pushes at: the character, a space for white space.
Pushed(input, at) ==
  Kept([i \in 1..Len(input) |->
          [keep |-> i \in at,
           ch |-> IF IsWhitespace(input[i]) THEN Space ELSE input[i]]])

NormalizeWhitespaceHalves(input) ==
  Trim(Pushed(input, {i \in 1..Len(input) :
                        \/ ~IsWhitespace(input[i])
                        \/ i = 1
                        \/ ~IsWhitespace(input[i - 1])
                        \/ (i > 2 /\ IsWhitespace(input[i - 2]))}))

\* normalize_whitespace: of a run of white space only the first character
\* is pushed, as a space (last_was_space is true exactly when the character
\* before was white space); then trim
NormalizeWhitespace(input) ==
  Trim(Pushed(input, {i \in 1..Len(input) :
                        \/ ~IsWhitespace(input[i])
                        \/ i = 1
                        \/ ~IsWhitespace(input[i - 1])}))

\* alt.and_then(|s| { let s = normalize_whitespace(&s); (!s.is_empty()).then_some(s) })
NormalizeOption(opt) ==
  IF opt = None THEN None
  ELSE IF NormalizeWhitespace(Unwrap(opt)) = <<>> THEN None
  ELSE Some(NormalizeWhitespace(Unwrap(opt)))

\* items.into_iter().map(normalize_whitespace).filter(!is_empty).take(100)
NormalizeItems(items) ==
  LET mapped == [i \in 1..Len(items) |-> NormalizeWhitespace(items[i])]
      kept == SelectSeq(mapped, LAMBDA s : s # <<>>)
  IN  IF Len(kept) > MaxListItems THEN SubSeq(kept, 1, MaxListItems) ELSE kept

CleanBlockKeepsBlankQuote(block) ==
  IF block.kind \in {"Heading", "Paragraph"}
    THEN IF NormalizeWhitespace(block.text) = <<>> THEN None
         ELSE Some([block EXCEPT !.text = NormalizeWhitespace(block.text)])
  ELSE IF block.kind \in {"Quote", "Code"}
    THEN IF block.text = <<>> THEN None
         ELSE Some([block EXCEPT !.text = Trim(block.text)])
  ELSE IF block.kind = "List"
    THEN IF NormalizeItems(block.items) = <<>> THEN None
         ELSE Some([block EXCEPT !.items = NormalizeItems(block.items)])
  ELSE IF block.kind = "Image"
    THEN IF Trim(block.url) = <<>> THEN None
         ELSE Some([block EXCEPT !.alt = NormalizeOption(block.alt),
                                 !.caption = NormalizeOption(block.caption)])
  ELSE Some(block)

\* normalize_blocks, the match: the block cleaned, or None for `continue`
CleanBlock(block) ==
  IF block.kind \in {"Heading", "Paragraph"}
    THEN IF NormalizeWhitespace(block.text) = <<>> THEN None
         ELSE Some([block EXCEPT !.text = NormalizeWhitespace(block.text)])
  ELSE IF block.kind \in {"Quote", "Code"}
    THEN IF Trim(block.text) = <<>> THEN None
         ELSE Some([block EXCEPT !.text = Trim(block.text)])
  ELSE IF block.kind = "List"
    THEN IF NormalizeItems(block.items) = <<>> THEN None
         ELSE Some([block EXCEPT !.items = NormalizeItems(block.items)])
  ELSE IF block.kind = "Image"
    THEN IF Trim(block.url) = <<>> THEN None
         ELSE Some([block EXCEPT !.alt = NormalizeOption(block.alt),
                                 !.caption = NormalizeOption(block.caption)])
  ELSE Some(block)

RepeatsNever(out, block) == FALSE

\* normalize_blocks, lines 971-978: the block repeats the paragraph that is
\* the last of out
RepeatsLast(out, block) ==
  /\ out # <<>>
  /\ out[Len(out)].kind = "Paragraph"
  /\ block.kind = "Paragraph"
  /\ out[Len(out)].text = block.text

\* normalize_blocks, one turn of the loop on `block`, out being below
\* MAX_BLOCKS: `continue` leaves out as it is, otherwise the block is pushed
NormalizeTurn(out, block) ==
  CHOOSE result \in
    {IF cleaned = None THEN out
     ELSE IF RepeatsLast(out, Unwrap(cleaned)) THEN out
     ELSE Append(out, Unwrap(cleaned))
       : cleaned \in {CleanBlock(block)}} : TRUE

\* normalize_blocks, the turns of the loop for blocks[lo..hi], first those
\* of the lower half, then those of the upper half.  The loop breaks once
\* a push brings out to MAX_BLOCKS: no turn is taken from then on.
RECURSIVE NormalizeRange(_, _, _, _)
NormalizeRange(blocks, lo, hi, out) ==
  IF lo > hi \/ Len(out) >= MAX_BLOCKS THEN out
  ELSE IF lo = hi THEN NormalizeTurn(out, blocks[lo])
  ELSE CHOOSE result \in
         {NormalizeRange(blocks, (lo + hi) \div 2 + 1, hi, lower)
            : lower \in {NormalizeRange(blocks, lo, (lo + hi) \div 2, out)}} : TRUE

\* normalize_blocks
NormalizeBlocks(blocks) == NormalizeRange(blocks, 1, Len(blocks), <<>>)

\* The sum of lens[lo..hi], by halves.
RECURSIVE Sum(_, _, _)
Sum(lens, lo, hi) ==
  IF lo > hi THEN 0
  ELSE IF lo = hi THEN lens[lo]
  ELSE Sum(lens, lo, (lo + hi) \div 2) + Sum(lens, (lo + hi) \div 2 + 1, hi)

\* total_text_len, the match: the bytes of the block's texts
BlockTextLen(block) ==
  IF block.kind \in {"Heading", "Paragraph", "Quote", "Code"} THEN StrLen(block.text)
  ELSE IF block.kind = "List"
    THEN Sum([i \in 1..Len(block.items) |-> StrLen(block.items[i])], 1, Len(block.items))
  ELSE IF block.kind = "Image"
    THEN (IF block.alt = None THEN 0 ELSE StrLen(Unwrap(block.alt)))
         + (IF block.caption = None THEN 0 ELSE StrLen(Unwrap(block.caption)))
  ELSE 0

\* total_text_len
TotalTextLen(blocks) ==
  Sum([i \in 1..Len(blocks) |-> BlockTextLen(blocks[i])], 1, Len(blocks))

\* The first n of the texts, normalized, that are not empty.
Paragraphs(raw, n) ==
  LET kept == SelectSeq([i \in 1..Len(raw) |-> NormalizeWhitespace(raw[i])],
                        LAMBDA text : text # <<>>)
  IN  IF Len(kept) > n THEN SubSeq(kept, 1, n) ELSE kept

\* split_paragraphs; the text is given as its pieces between "\n\n"
SplitParagraphs(pieces) == Paragraphs(pieces, MaxParagraphs)

\* A root element: the blocks collect_blocks pushes for it, the texts of
\* its <p> elements and its own text in pieces between "\n\n".
Root(collected, p_texts, text) ==
  [collected |-> collected, p_texts |-> p_texts, text |-> text]

\* extract_paragraphs
ExtractParagraphs(root) ==
  CHOOSE result \in
    {IF paragraphs = <<>> THEN SplitParagraphs(root.text) ELSE paragraphs
       : paragraphs \in {Paragraphs(root.p_texts, MaxParagraphs)}} : TRUE

AsParagraphs(texts) == [i \in 1..Len(texts) |-> Paragraph(texts[i])]

\* Vec::truncate
Truncate(blocks, len) == IF Len(blocks) > len THEN SubSeq(blocks, 1, len) ELSE blocks

\* extract_blocks
ExtractBlocks(root) ==
  CHOOSE result \in
    {Truncate(IF blocks = <<>> \/ TotalTextLen(blocks) < MinTextLen
              THEN AsParagraphs(ExtractParagraphs(root))
              ELSE blocks, MAX_BLOCKS)
       : blocks \in {NormalizeBlocks(root.collected)}} : TRUE

\* What readabilityrs answers: nothing (Readability::new fails, parse gives
\* None, no content), or a content that is blank or has a root element.
Content(blank, root) == [blank |-> blank, root |-> root]

\* A page: its content-type header, its body as plain text (pieces between
\* "\n\n"), what readabilityrs makes of it, and the root select_best_root
\* picks in it.
Page(ctype, text, readability, root) ==
  [ctype |-> ctype, text |-> text, readability |-> readability, root |-> root]

\* extract_with_readabilityrs: the article's blocks, if it accepts
ExtractWithReadabilityrs(page) ==
  IF page.readability = None THEN None
  ELSE IF Unwrap(page.readability).blank THEN None
  ELSE CHOOSE result \in
         {IF blocks = <<>> \/ TotalTextLen(blocks) < MinTextLen THEN None
          ELSE Some(blocks)
            : blocks \in {ExtractBlocks(Unwrap(page.readability).root)}} : TRUE

\* extract_html_article: the blocks of the article and the extractor they
\* come from
ExtractHtmlBlocks(page) ==
  CHOOSE result \in
    {IF IsSome(article) THEN [via |-> "readability", blocks |-> Unwrap(article)]
     ELSE [via |-> "custom", blocks |-> ExtractBlocks(page.root)]
       : article \in {ExtractWithReadabilityrs(page)}} : TRUE

\* plain_text_article: the blocks of the article
PlainTextBlocks(page) ==
  [via |-> "plain", blocks |-> AsParagraphs(SplitParagraphs(page.text))]

\* load_article, lines 141-155, on a body read in full
ExtractByContentType(page) ==
  IF Contains(ContentType(page), "text/plain")
    THEN [tag |-> "Ok", article |-> PlainTextBlocks(page)]
  ELSE IF Unsupported(ContentType(page))
    THEN [tag |-> "Err", article |-> [via |-> "none", blocks |-> <<>>]]
  ELSE [tag |-> "Ok", article |-> ExtractHtmlBlocks(page)]

\* The texts of `len` characters c.
Repeat(c, len) == [k \in 1..len |-> c]

\* Blocks as collect_blocks can push them: texts with runs of white space,
\* blank texts, empty lists, images without a URL.
NormBlocks ==
  {Paragraph(<<"a">>), Paragraph(<<Space, "a", Newline>>),
   Paragraph(<<"a", Space, Newline, Space, "b">>), Paragraph(<<Newline, Space>>),
   Paragraph(<<>>),
   Heading(1, <<"a">>), Heading(2, <<Space>>),
   Quote(<<Space, "a", Space, Space, "b", Newline>>), Quote(<<Newline>>),
   List(TRUE, <<>>), List(FALSE, << <<Space>>, <<>> >>),
   List(TRUE, << <<Space>>, <<"a", Newline, Newline, "b">> >>),
   Code(<<Newline, Space>>, None), Code(<<Space, "a", Newline, "b">>, Some(<<"rust">>)),
   Image(<<>>, Some(<<"a">>), None), Image(<<Space>>, None, None),
   Image(<<Space, "u">>, Some(<<Space>>), Some(<<"c", Space, Space>>)),
   Rule}

ShortBlockVecs == UNION {[1..n -> NormBlocks] : n \in 0..MaxNormLen}

\* More blocks than MAX_BLOCKS, with and without repeated paragraphs; lists
\* of more than a hundred items; texts at the 200 byte mark.
LongBlockVecs ==
  {[k \in 1..(MAX_BLOCKS + 1) |-> Paragraph(IF k % 2 = 1 THEN <<"a">> ELSE <<"b", Space>>)],
   [k \in 1..(MAX_BLOCKS + 100) |-> Paragraph(<<"a">>)],
   [k \in 1..(MAX_BLOCKS + 2) |-> IF k < MAX_BLOCKS THEN Rule ELSE Paragraph(<<"a">>)],
   [k \in 1..(2 * MAX_BLOCKS + 2) |->
      IF k % 2 = 1 THEN Paragraph(<<Space>>)
      ELSE IF k % 4 = 0 THEN Paragraph(<<"a", Space>>) ELSE Paragraph(<<"b">>)],
   << Paragraph(Repeat("a", MinTextLen)), Paragraph(Repeat("a", MinTextLen) \o <<Space>>) >>,
   [k \in 1..(MAX_BLOCKS + 1) |-> IF k % 3 = 0 THEN Rule ELSE Paragraph(<<"a">>)],
   << List(TRUE, Repeat(<<"a">>, MaxListItems + 1)) >>,
   << List(FALSE, [k \in 1..(MaxListItems + 50) |->
                    IF k % 3 = 0 THEN <<Space>> ELSE <<"a", Space, Space, "b">>]),
      Rule >>,
   << Paragraph(Repeat("a", MinTextLen)) >>,
   << Paragraph(Repeat("a", MinTextLen - 1)) >>,
   << Paragraph(Repeat(Wide, 67)) >>,
   << Paragraph(Repeat(Wide, 66)) >>}

EmptyRoot == Root(<<>>, <<>>, <<>>)

\* Roots whose structured blocks are thin or rich, with the <p> texts and
\* the text pieces the fallback would take.
Roots ==
  {EmptyRoot,
   Root(<<Paragraph(<<"a">>), Paragraph(<<"a">>)>>, << <<"a">>, <<Space, "a">> >>, <<>>),
   Root(<<>>, << Repeat("a", 100), Repeat("a", 100) >>, <<>>),
   Root(<<>>, Repeat(<<"a">>, MaxParagraphs + 1), <<>>),
   Root(<<>>, <<>>, << <<"a">>, <<Space>>, <<"a">>, <<"b", Newline, "c">> >>),
   Root(<<Rule>>, <<>>, [k \in 1..(MaxParagraphs + 1) |->
                          IF k % 2 = 1 THEN <<"a">> ELSE <<"b">>])}
  \cup {Root(blocks, << <<"p">> >>, <<>>) : blocks \in LongBlockVecs}

Readabilities ==
  {None, Some(Content(TRUE, EmptyRoot))} \cup {Some(Content(FALSE, root)) : root \in Roots}

HtmlContentTypes ==
  {None, Some(HeaderValue(TRUE, <<"text/html", "; charset=utf-8">>))}

\* The pages: every short block sequence as the page's structured blocks;
\* the roots above under every answer of readabilityrs; plain-text bodies;
\* a PDF.
Pages ==
  {Page(None, <<>>, None, Root(blocks, <<>>, <<>>)) : blocks \in ShortBlockVecs}
  \cup {Page(ctype, <<>>, readability, root) :
          ctype \in HtmlContentTypes, readability \in Readabilities, root \in Roots}
  \cup {Page(Some(HeaderValue(TRUE, <<"text/plain">>)), text, readability, EmptyRoot) :
          text \in {<<>>, << <<"a">>, <<"a">> >>, << <<"a">>, <<Space>>, <<"b">> >>,
                    Repeat(<<"a", Newline>>, MaxParagraphs + 1)},
          readability \in {None, Some(Content(FALSE,
                             Root(<<Paragraph(Repeat("a", MinTextLen))>>, <<>>, <<>>)))}}
  \cup {Page(Some(HeaderValue(TRUE, <<"application/pdf">>)), <<>>, None, EmptyRoot)}

InitExtract ==
  /\ Idle
  /\ \E page \in Pages :
       call = [op |-> "input", page |-> page, out |-> <<>>, again |-> <<>>,
               result |-> [tag |-> "none", article |-> [via |-> "none", blocks |-> <<>>]]]

\* normalize_blocks(blocks) on the blocks collected for the page's root
CallNormalizeBlocks ==
  /\ call.op = "input"
  /\ call' = [call EXCEPT !.op = "normalize_blocks",
                          !.out = NormalizeBlocks(call.page.root.collected)]
  /\ UNCHANGED <<appVars, fsDir, fsData, writers, rd, fsEnv>>

\* normalize_blocks on its own output
CallNormalizeAgain ==
  /\ call.op = "normalize_blocks"
  /\ call' = [call EXCEPT !.op = "normalize_again", !.again = NormalizeBlocks(call.out)]
  /\ UNCHANGED <<appVars, fsDir, fsData, writers, rd, fsEnv>>

\* load_article on the page, from the content-type tests on
CallExtract ==
  /\ call.op = "input"
  /\ call' = [call EXCEPT !.op = "extract", !.result = ExtractByContentType(call.page)]
  /\ UNCHANGED <<appVars, fsDir, fsData, writers, rd, fsEnv>>

NextExtract ==
  \/ CallNormalizeBlocks
  \/ CallNormalizeAgain
  \/ CallExtract

SpecExtract == InitExtract /\ [][NextExtract]_vars

(***************************************************************************)
(* Code blocks (reader.rs): extract_code_block on the text of a pre         *)
(* element, then normalize_blocks on the block.                            *)
(***************************************************************************)
RECURSIVE ReplaceTabs(_)
\* input.replace('\t', "    ")
ReplaceTabs(input) ==
  IF input = <<>> THEN <<>>
  ELSE (IF Head(input) = Tab THEN <<Space, Space, Space, Space>> ELSE <<Head(input)>>)
       \o ReplaceTabs(Tail(input))

RECURSIVE Lines(_)
\* str::lines: the text between line feeds; a final line feed ends the last
\* line and starts no new one
Lines(text) ==
  IF text = <<>> THEN <<>>
  ELSE LET feeds == {i \in 1..Len(text) : text[i] = Newline}
       IN  IF feeds = {} THEN <<text>>
           ELSE LET k == CHOOSE i \in feeds : \A j \in feeds : i <= j
                IN  <<SubSeq(text, 1, k - 1)>> \o Lines(SubSeq(text, k + 1, Len(text)))

\* l.trim().is_empty()
IsBlankLine(line) == Trim(line) = <<>>

\* lines.remove(0) while the first line is blank, lines.pop() while the last is
DropBlankEnds(lines) ==
  LET solid == {i \in 1..Len(lines) : ~IsBlankLine(lines[i])}
  IN  IF solid = {} THEN <<>>
      ELSE SubSeq(lines, CHOOSE i \in solid : \A j \in solid : i <= j,
                         CHOOSE i \in solid : \A j \in solid : j <= i)

\* line.chars().take_while(|ch| *ch == c).count()
Leading(line, c) ==
  LET others == {i \in 1..Len(line) : line[i] # c}
  IN  IF others = {} THEN Len(line)
      ELSE (CHOOSE i \in others : \A j \in others : i <= j) - 1

\* min_indent: the least indent of the lines that are not blank, 0 without one
MinIndent(lines) ==
  LET solid == {i \in 1..Len(lines) : ~IsBlankLine(lines[i])}
  IN  IF solid = {} THEN 0
      ELSE Leading(lines[CHOOSE i \in solid :
                           \A j \in solid :
                             Leading(lines[i], Space) <= Leading(lines[j], Space)], Space)

\* line.strip_prefix(&dedent_prefix).unwrap_or(line)
StripPrefix(line, n) ==
  IF Leading(line, Space) >= n THEN SubSeq(line, n + 1, Len(line)) ELSE line

\* U+00A0 for every leading space, then line.trim_start_matches(' ')
IndentLine(line) ==
  [i \in 1..Len(line) |-> IF i <= Leading(line, Space) THEN Nbsp ELSE line[i]]

RECURSIVE JoinLines(_)
\* out_lines.join("\n")
JoinLines(lines) ==
  IF lines = <<>> THEN <<>>
  ELSE IF Len(lines) = 1 THEN lines[1]
  ELSE lines[1] \o <<Newline>> \o JoinLines(Tail(lines))

\* normalize_code_text
NormalizeCodeText(input) ==
  LET lines == DropBlankEnds(Lines(ReplaceTabs(input)))
      min_indent == MinIndent(lines)
  IN  JoinLines([i \in 1..Len(lines) |-> IndentLine(StripPrefix(lines[i], min_indent))])

\* extract_code_block on the text of the code (or pre) element
ExtractCodeBlock(raw, language) ==
  IF NormalizeCodeText(raw) = <<>> THEN None
  ELSE Some(Code(NormalizeCodeText(raw), language))

\* The texts of a pre element: spaces, tabs, line feeds and a letter
CodeChars == {Space, Tab, Newline, "a"}

CodeTexts == UNION {[1..n -> CodeChars] : n \in 0..MaxCodeLen}

InitCode ==
  /\ Idle
  /\ \E raw \in CodeTexts :
       call = [op |-> "pre", raw |-> raw, collected |-> <<>>, blocks |-> <<>>]

\* collect_blocks on a pre element: extract_code_block, the block pushed
CallExtractCodeBlock ==
  /\ call.op = "pre"
  /\ call' = [call EXCEPT !.op = "extract_code_block",
                          !.collected = ExtractCodeBlock(call.raw, None)]
  /\ UNCHANGED <<appVars, fsDir, fsData, writers, rd, fsEnv>>

\* extract_blocks, line 531: normalize_blocks on the blocks collected
CallNormalizeCode ==
  /\ call.op = "extract_code_block"
  /\ call' = [call EXCEPT !.op = "normalize_blocks",
                          !.blocks = NormalizeBlocks(call.collected)]
  /\ UNCHANGED <<appVars, fsDir, fsData, writers, rd, fsEnv>>

NextCode ==
  \/ CallExtractCodeBlock
  \/ CallNormalizeCode

SpecCode == InitCode /\ [][NextCode]_vars

(***************************************************************************)
(* The document (scraper::Html) and the candidate root (reader.rs).  A     *)
(* node is a text node or an element with its tag, the attributes the      *)
(* extractor reads and its children.  The documents hold no img element.   *)
(***************************************************************************)
TextNode(text) == [tag |-> "#text", text |-> text]

\* id, class, role: None when the attribute is absent; hidden: the element
\* has the attribute hidden, or aria-hidden="true"
Attrs(id, class, role, hidden) ==
  [id |-> id, class |-> class, role |-> role, hidden |-> hidden]

NoAttrs == Attrs(None, None, None, FALSE)

Element(tag, attrs, kids) == [tag |-> tag, attrs |-> attrs, kids |-> kids]

RECURSIVE Walk(_, _)
\* The elements among kids[i..] and below them, in document order.
Walk(kids, i) ==
  IF i > Len(kids) THEN <<>>
  ELSE (IF kids[i].tag = "#text" THEN <<>>
        ELSE <<kids[i]>> \o Walk(kids[i].kids, 1))
       \o Walk(kids, i + 1)

\* element.select(&selector) for a selector that lists tags
Select(element, tags) == SelectSeq(Walk(element.kids, 1), LAMBDA e : e.tag \in tags)

\* element.child_elements()
ChildElements(element) == SelectSeq(element.kids, LAMBDA n : n.tag # "#text")

RECURSIVE TextsFrom(_, _)
TextsFrom(kids, i) ==
  IF i > Len(kids) THEN <<>>
  ELSE (IF kids[i].tag = "#text" THEN <<kids[i].text>>
        ELSE TextsFrom(kids[i].kids, 1))
       \o TextsFrom(kids, i + 1)

\* element.text(): the text nodes below the element, in document order
ElementText(element) == TextsFrom(element.kids, 1)

RECURSIVE JoinWith(_, _)
\* texts.join(sep)
JoinWith(texts, sep) ==
  IF texts = <<>> THEN <<>>
  ELSE IF Len(texts) = 1 THEN texts[1]
  ELSE texts[1] \o sep \o JoinWith(Tail(texts), sep)

\* element_text_len: the bytes of the words of the element's text
ElementTextLen(element) ==
  LET texts == ElementText(element)
  IN  Sum([i \in 1..Len(texts) |->
             StrLen(SelectSeq(texts[i], LAMBDA c : ~IsWhitespace(c)))], 1, Len(texts))

UpperCase == <<"A", "B", "C", "D", "E", "F", "G", "H", "I", "J", "K", "L", "M",
               "N", "O", "P", "Q", "R", "S", "T", "U", "V", "W", "X", "Y", "Z">>

LowerCase == <<"a", "b", "c", "d", "e", "f", "g", "h", "i", "j", "k", "l", "m",
               "n", "o", "p", "q", "r", "s", "t", "u", "v", "w", "x", "y", "z">>

\* str::to_ascii_lowercase
ToAsciiLowercase(text) ==
  [i \in 1..Len(text) |->
     IF \E k \in 1..Len(UpperCase) : UpperCase[k] = text[i]
     THEN LowerCase[CHOOSE k \in 1..Len(UpperCase) : UpperCase[k] = text[i]]
     ELSE text[i]]

\* str::contains
StrContains(text, needle) ==
  \E k \in 0..(Len(text) - Len(needle)) : SubSeq(text, k + 1, k + Len(needle)) = needle

POSITIVE_KEYWORDS ==
  {<<"a", "r", "t", "i", "c", "l", "e">>, <<"b", "o", "d", "y">>,
   <<"c", "o", "n", "t", "e", "n", "t">>, <<"e", "n", "t", "r", "y">>,
   <<"m", "a", "i", "n">>, <<"p", "a", "g", "e">>, <<"p", "o", "s", "t">>,
   <<"r", "e", "a", "d">>, <<"s", "t", "o", "r", "y">>, <<"t", "e", "x", "t">>}

NEGATIVE_KEYWORDS ==
  {<<"a", "d">>, <<"a", "d", "s">>, <<"a", "d", "v", "e", "r", "t">>,
   <<"b", "a", "n", "n", "e", "r">>, <<"c", "o", "o", "k", "i", "e">>,
   <<"c", "o", "m", "m", "e", "n", "t">>, <<"f", "o", "o", "t", "e", "r">>,
   <<"h", "e", "a", "d", "e", "r">>, <<"m", "a", "s", "t", "h", "e", "a", "d">>,
   <<"m", "e", "n", "u">>, <<"m", "o", "d", "a", "l">>, <<"n", "a", "v">>,
   <<"n", "e", "w", "s", "l", "e", "t", "t", "e", "r">>,
   <<"p", "a", "g", "i", "n", "a", "t", "i", "o", "n">>,
   <<"p", "o", "p", "u", "p">>, <<"p", "r", "o", "m", "o">>,
   <<"r", "e", "c", "o", "m", "m", "e", "n", "d">>,
   <<"r", "e", "l", "a", "t", "e", "d">>, <<"s", "h", "a", "r", "e">>,
   <<"s", "i", "d", "e", "b", "a", "r">>, <<"s", "o", "c", "i", "a", "l">>,
   <<"s", "p", "o", "n", "s", "o", "r">>,
   <<"s", "u", "b", "s", "c", "r", "i", "b", "e">>,
   <<"t", "o", "o", "l", "b", "a", "r">>, <<"w", "i", "d", "g", "e", "t">>}

\* keyword_weight
KeywordWeight(value) ==
  25 * Cardinality({k \in POSITIVE_KEYWORDS : StrContains(ToAsciiLowercase(value), k)})
  - 25 * Cardinality({k \in NEGATIVE_KEYWORDS : StrContains(ToAsciiLowercase(value), k)})

\* class_id_weight
ClassIdWeight(element) ==
  (IF element.attrs.id = None THEN 0 ELSE KeywordWeight(Unwrap(element.attrs.id)))
  + (IF element.attrs.class = None THEN 0 ELSE KeywordWeight(Unwrap(element.attrs.class)))
  + (IF element.attrs.role = None THEN 0 ELSE KeywordWeight(Unwrap(element.attrs.role)))

\* is_unlikely_candidate, lines 501-514: id, a space, class, a space, role
Combined(element) ==
  ToAsciiLowercase(
    (IF element.attrs.id = None THEN <<>> ELSE Unwrap(element.attrs.id) \o <<Space>>)
    \o (IF element.attrs.class = None THEN <<>>
        ELSE Unwrap(element.attrs.class) \o <<Space>>)
    \o (IF element.attrs.role = None THEN <<>> ELSE Unwrap(element.attrs.role)))

IsUnlikelyCandidateNever(element) == FALSE

\* is_unlikely_candidate
IsUnlikelyCandidate(element) ==
  /\ \E kw \in NEGATIVE_KEYWORDS : StrContains(Combined(element), kw)
  /\ ~\E kw \in POSITIVE_KEYWORDS : StrContains(Combined(element), kw)

\* count_commas
CountCommas(element) ==
  LET text == JoinWith(ElementText(element), <<>>)
  IN  Cardinality({i \in 1..Len(text) : text[i] \in {",", WideComma}})

\* A score: the fraction num / den, den positive.  The code computes in f32;
\* the fractions here are exact.
Score(num, den) == [num |-> num, den |-> den]

\* score_candidate.  link is link_text_len cut at text_len, so that
\* link_density = link / text_len; the factors 0.85 and 0.6 are 17/20 and 3/5.
ScoreCandidate(candidate) ==
  LET lens == [p \in 1..Len(Select(candidate, {"p"})) |->
                 ElementTextLen(Select(candidate, {"p"})[p])]
      counted == {p \in 1..Len(lens) : lens[p] >= 20}
      paragraph_count == Cardinality(counted)
      paragraph_text_len ==
        Sum([p \in 1..Len(lens) |-> IF p \in counted THEN lens[p] ELSE 0], 1, Len(lens))
      text_len == ElementTextLen(candidate)
      anchors == Select(candidate, {"a"})
      link_text_len ==
        Sum([a \in 1..Len(anchors) |-> ElementTextLen(anchors[a])], 1, Len(anchors))
      link == IF link_text_len > text_len THEN text_len ELSE link_text_len
      tag_bonus == IF candidate.tag = "article" THEN 800
                   ELSE IF candidate.tag = "main" THEN 650
                   ELSE IF candidate.tag = "section" THEN 250
                   ELSE 0
      whole == tag_bonus + ClassIdWeight(candidate) * 25 + paragraph_count * 120
               + CountCommas(candidate) * 20
      few == IF paragraph_text_len < 400 THEN Score(17, 20) ELSE Score(1, 1)
      dense == IF 2 * link > text_len THEN Score(3, 5) ELSE Score(1, 1)
  IN  IF text_len < 120 THEN Score(0, 1)
      ELSE IF 4 * link > 3 * text_len THEN Score(0, 1)
      ELSE Score((whole * text_len + paragraph_text_len * (text_len - link))
                   * few.num * dense.num,
                 text_len * few.den * dense.den)

RECURSIVE Less(_, _, _, _)
\* a / b < c / d for a, c >= 0 and b, d > 0, without the products a * d, c * b
Less(a, b, c, d) ==
  IF a \div b # c \div d THEN a \div b < c \div d
  ELSE IF c % d = 0 THEN FALSE
  ELSE IF a % b = 0 THEN TRUE
  ELSE Less(d, c % d, b, a % b)

RECURSIVE BestFrom(_, _, _)
\* select_best_root, the loop from the i-th candidate on; best is None or
\* Some of the best score so far and its element
BestFrom(candidates, i, best) ==
  IF i > Len(candidates) THEN best
  ELSE IF IsUnlikelyCandidate(candidates[i]) THEN BestFrom(candidates, i + 1, best)
  ELSE CHOOSE result \in
         {IF score.num <= 0 THEN BestFrom(candidates, i + 1, best)
          ELSE IF best # None
                  /\ ~Less(Unwrap(best).score.num, Unwrap(best).score.den,
                           score.num, score.den)
            THEN BestFrom(candidates, i + 1, best)
          ELSE BestFrom(candidates, i + 1, Some([score |-> score, el |-> candidates[i]]))
            : score \in {ScoreCandidate(candidates[i])}} : TRUE

\* select_best_root
SelectBestRoot(doc) ==
  LET best == BestFrom(Select(doc, {"article", "main", "section", "div"}), 1, None)
  IN  IF best = None THEN None ELSE Some(Unwrap(best).el)

(***************************************************************************)
(* collect_blocks (reader.rs) on the document tree.                        *)
(***************************************************************************)
SkippedTags ==
  {"script", "style", "noscript", "header", "footer", "nav", "aside", "form",
   "button", "input", "textarea", "select", "option", "iframe", "canvas"}

\* should_skip_subtree
ShouldSkipSubtree(element) ==
  \/ element.attrs.hidden
  \/ element.tag \in SkippedTags
  \/ IsUnlikelyCandidate(element)

\* extract_text
ExtractText(element) ==
  LET text == NormalizeWhitespace(JoinWith(ElementText(element), <<Space>>))
  IN  IF text = <<>> THEN None ELSE Some(text)

NoiseTokens ==
  {<<"c", "o", "o", "k", "i", "e">>, <<"s", "i", "g", "n", Space, "i", "n">>,
   <<"l", "o", "g", Space, "i", "n">>,
   <<"s", "u", "b", "s", "c", "r", "i", "b", "e">>,
   <<"n", "e", "w", "s", "l", "e", "t", "t", "e", "r">>,
   <<"a", "d", "v", "e", "r", "t">>,
   <<"s", "p", "o", "n", "s", "o", "r", "e", "d">>,
   <<"p", "r", "i", "v", "a", "c", "y", Space, "p", "o", "l", "i", "c", "y">>,
   <<"t", "e", "r", "m", "s", Space, "o", "f", Space, "s", "e", "r", "v", "i", "c", "e">>}

IsNoiseParagraphAlways(text) == TRUE

\* is_noise_paragraph
IsNoiseParagraph(text) ==
  \/ StrLen(ToAsciiLowercase(text)) < 6
  \/ \E t \in NoiseTokens : StrContains(ToAsciiLowercase(text), t)

\* heading_level
HeadingLevel(tag) ==
  IF tag = "h1" THEN 1 ELSE IF tag = "h2" THEN 2 ELSE IF tag = "h3" THEN 3
  ELSE IF tag = "h4" THEN 4 ELSE IF tag = "h5" THEN 5 ELSE IF tag = "h6" THEN 6
  ELSE 2

\* The texts that are Some, in order.
Somes(options) ==
  [k \in 1..Len(SelectSeq(options, IsSome)) |-> Unwrap(SelectSeq(options, IsSome)[k])]

\* extract_blockquote_text
ExtractBlockquoteText(element) ==
  LET ps == Select(element, {"p"})
      paragraphs == Somes([i \in 1..Len(ps) |-> ExtractText(ps[i])])
  IN  IF paragraphs = <<>> THEN ExtractText(element)
      ELSE Some(JoinWith(Truncate(paragraphs, 20), <<Newline, Newline>>))

RECURSIVE ListItemsFrom(_, _, _)
\* extract_list_items, the loop from the i-th child element on
ListItemsFrom(children, i, items) ==
  IF i > Len(children) THEN items
  ELSE IF children[i].tag # "li" \/ ShouldSkipSubtree(children[i])
    THEN ListItemsFrom(children, i + 1, items)
  ELSE LET text == ExtractText(children[i])
           pushed == IF text # None /\ ~IsNoiseParagraph(Unwrap(text))
                     THEN Append(items, Unwrap(text)) ELSE items
       IN  IF Len(pushed) >= 50 THEN pushed
           ELSE ListItemsFrom(children, i + 1, pushed)

\* extract_list_items
ExtractListItems(list) ==
  LET items == ListItemsFrom(ChildElements(list), 1, <<>>)
  IN  IF items = <<>> THEN None ELSE Some(items)

RECURSIVE SplitWhitespace(_)
\* str::split_whitespace
SplitWhitespace(text) ==
  LET solid == {i \in 1..Len(text) : ~IsWhitespace(text[i])}
  IN  IF solid = {} THEN <<>>
      ELSE LET first == CHOOSE i \in solid : \A j \in solid : i <= j
               gaps == {i \in first..Len(text) : IsWhitespace(text[i])}
               end == IF gaps = {} THEN Len(text) + 1
                      ELSE CHOOSE i \in gaps : \A j \in gaps : i <= j
           IN  <<SubSeq(text, first, end - 1)>>
               \o SplitWhitespace(SubSeq(text, end, Len(text)))

\* token.strip_prefix(prefix), trimmed: Some of the rest when it is not empty
LanguageAfter(token, prefix) ==
  IF Len(token) > Len(prefix) /\ SubSeq(token, 1, Len(prefix)) = prefix
  THEN Some(SubSeq(token, Len(prefix) + 1, Len(token)))
  ELSE None

\* detect_code_language
DetectCodeLanguage(code) ==
  IF code.attrs.class = None THEN None
  ELSE LET tokens == SplitWhitespace(Unwrap(code.attrs.class))
           found == {i \in 1..Len(tokens) :
                       \/ LanguageAfter(tokens[i], <<"l", "a", "n", "g", "u", "a", "g", "e", "-">>) # None
                       \/ LanguageAfter(tokens[i], <<"l", "a", "n", "g", "-">>) # None}
       IN  IF found = {} THEN None
           ELSE LET token == tokens[CHOOSE i \in found : \A j \in found : i <= j]
                IN  IF LanguageAfter(token, <<"l", "a", "n", "g", "u", "a", "g", "e", "-">>) # None
                    THEN LanguageAfter(token, <<"l", "a", "n", "g", "u", "a", "g", "e", "-">>)
                    ELSE LanguageAfter(token, <<"l", "a", "n", "g", "-">>)

\* extract_code_block on a pre element
ExtractPre(pre) ==
  LET codes == Select(pre, {"code"})
  IN  IF codes = <<>> THEN ExtractCodeBlock(JoinWith(ElementText(pre), <<>>), None)
      ELSE ExtractCodeBlock(JoinWith(ElementText(codes[1]), <<>>),
                            DetectCodeLanguage(codes[1]))

\* collect_blocks, the match on a child that is no container: what is
\* pushed, None for nothing
BlockOf(child) ==
  IF child.tag = "p"
    THEN IF ExtractText(child) # None /\ ~IsNoiseParagraph(Unwrap(ExtractText(child)))
         THEN Some(Paragraph(Unwrap(ExtractText(child)))) ELSE None
  ELSE IF child.tag \in {"h1", "h2", "h3", "h4", "h5", "h6"}
    THEN IF ExtractText(child) # None
         THEN Some(Heading(HeadingLevel(child.tag), Unwrap(ExtractText(child)))) ELSE None
  ELSE IF child.tag = "blockquote"
    THEN IF ExtractBlockquoteText(child) # None
         THEN Some(Quote(Unwrap(ExtractBlockquoteText(child)))) ELSE None
  ELSE IF child.tag \in {"ul", "ol"}
    THEN IF ExtractListItems(child) # None
         THEN Some(List(child.tag = "ol", Unwrap(ExtractListItems(child)))) ELSE None
  ELSE IF child.tag = "pre" THEN ExtractPre(child)
  ELSE IF child.tag = "hr" THEN Some(Rule)
  ELSE None

\* The children collect_blocks pushes a block for (or nothing); it recurses
\* into every other child.  A figure without an img is recursed into.
LeafTags == {"p", "h1", "h2", "h3", "h4", "h5", "h6", "blockquote", "ul", "ol", "pre", "hr"}

RECURSIVE CollectBlocks(_, _, _)
RECURSIVE CollectChildren(_, _, _, _)
\* collect_blocks, the loop from the i-th child element on
CollectChildren(children, i, depth, out) ==
  IF i > Len(children) \/ Len(out) >= MAX_BLOCKS THEN out
  ELSE IF ShouldSkipSubtree(children[i]) THEN CollectChildren(children, i + 1, depth, out)
  ELSE IF children[i].tag \in LeafTags
    THEN CollectChildren(children, i + 1, depth, out \o BlockOf(children[i]))
  ELSE CollectChildren(children, i + 1, depth,
                       CollectBlocks(children[i], depth + 1, out))

\* collect_blocks
CollectBlocks(element, depth, out) ==
  IF Len(out) >= MAX_BLOCKS \/ depth > 40 THEN out
  ELSE CollectChildren(ChildElements(element), 1, depth, out)

RECURSIVE SplitBlank(_)
\* text.split("\n\n")
SplitBlank(text) ==
  LET blanks == {i \in 1..(Len(text) - 1) : text[i] = Newline /\ text[i + 1] = Newline}
  IN  IF blanks = {} THEN <<text>>
      ELSE LET k == CHOOSE i \in blanks : \A j \in blanks : i <= j
           IN  <<SubSeq(text, 1, k - 1)>> \o SplitBlank(SubSeq(text, k + 2, Len(text)))

\* The root that extract_blocks is given, as it reads it: the blocks of
\* collect_blocks, the texts of its p elements (extract_paragraphs, line 1014)
\* and its text (line 1026).
RootOf(element) ==
  Root(CollectBlocks(element, 0, <<>>),
       [i \in 1..Len(Select(element, {"p"})) |->
          JoinWith(ElementText(Select(element, {"p"})[i]), <<Space>>)],
       SplitBlank(JoinWith(ElementText(element), <<Newline>>)))

(***************************************************************************)
(* select_best_root and extract_blocks as extract_html_article calls them  *)
(* (reader.rs, lines 282-283), on documents drawn from the sets below.     *)
(***************************************************************************)
\* <p>text</p>, the text inside an <a> when linked
Para(text, linked) ==
  Element("p", NoAttrs,
          IF linked THEN <<Element("a", NoAttrs, <<TextNode(text)>>)>>
          ELSE <<TextNode(text)>>)

\* What html5ever builds for a body with these parts.
Document(parts) ==
  Element("html", NoAttrs,
          <<Element("head", NoAttrs, <<>>), Element("body", NoAttrs, parts)>>)

\* <article class=...> of n paragraphs with the same text; links: "none",
\* "first" (the first paragraph is a link) or "all"
ArticleOf(n, text, links, class) ==
  Element("article", Attrs(None, class, None, FALSE),
          [k \in 1..n |-> Para(text, links = "all" \/ (links = "first" /\ k = 1))])

\* <div role="navigation" class=...> of n paragraphs
NavigationDiv(class, n, linked) ==
  Element("div", Attrs(None, class, Some(<<"n", "a", "v", "i", "g", "a", "t", "i", "o", "n">>), FALSE),
          [k \in 1..n |-> Para(Repeat("n", 40), linked)])

\* Twenty characters in one word, forty in one word, twenty in two words.
ParaTexts == {Repeat("a", 20), Repeat("a", 40), Repeat("a", 9) \o <<Space>> \o Repeat("a", 10)}

Articles ==
  {ArticleOf(n, text, links, class) :
     n \in {3, 6}, text \in ParaTexts, links \in {"none", "first", "all"},
     class \in {None, Some(<<"p", "o", "s", "t">>), Some(<<"c", "o", "m", "m", "e", "n", "t", "s">>)}}

NavigationDivs ==
  {NavigationDiv(class, n, linked) :
     class \in {None, Some(<<"m", "a", "i", "n", "-", "n", "a", "v">>)}, n \in {2, 12}, linked \in BOOLEAN}

ArticleDocs ==
  {Document(<<article>>) : article \in Articles}
  \cup {Document(<<nav, article>>) : nav \in NavigationDivs, article \in Articles}
  \cup {Document(<<article, nav>>) : nav \in NavigationDivs, article \in Articles}

First == <<"F", "i", "r", "s", "t", Space, "r", "e", "a", "l", Space, "p", "a", "r", "a", "g", "r", "a", "p", "h", Space, "w", "i", "t", "h", Space, "e", "n", "o", "u", "g", "h", Space, "t", "e", "x", "t", Space, "t", "o", Space, "c", "o", "u", "n", "t", ".">>

Second == <<"S", "e", "c", "o", "n", "d", Space, "p", "a", "r", "a", "g", "r", "a", "p", "h", ".">>

\* <div class="ad-banner">Buy now</div><article><h1>Title</h1><p>first</p>
\* <p>Second paragraph.</p></article>
Scenario(first) ==
  Document(<<Element("div", Attrs(None, Some(<<"a", "d", "-", "b", "a", "n", "n", "e", "r">>), None, FALSE),
                     <<TextNode(<<"B", "u", "y", Space, "n", "o", "w">>)>>),
             Element("article", NoAttrs,
                     <<Element("h1", NoAttrs, <<TextNode(<<"T", "i", "t", "l", "e">>)>>),
                       Para(first, FALSE), Para(Second, FALSE)>>)>>)

\* The first paragraph of the scenario as it is, with white space to
\* normalize, and grown so that the texts of the three blocks come to 199,
\* 200 and more bytes.
Firsts ==
  {First, <<Newline, Space>> \o First \o <<Space>>,
   First \o <<Space>> \o Repeat("x", MinTextLen - 2 - StrLen(First) - StrLen(Second) - 5),
   First \o <<Space>> \o Repeat("x", MinTextLen - 1 - StrLen(First) - StrLen(Second) - 5),
   First \o <<Space>> \o Repeat("x", MinTextLen)}

ScenarioDocs == {Scenario(first) : first \in Firsts}

\* Documents with the other elements collect_blocks knows.
RichDocs ==
  {Document(<<Element("nav", NoAttrs, <<Para(First, TRUE)>>),
              Element("main", Attrs(Some(<<"c", "o", "n", "t", "e", "n", "t">>), None, None, FALSE),
                      <<Element("h2", NoAttrs, <<TextNode(<<"T", "i", "t", "l", "e">>)>>),
                        Para(Repeat("x", MinTextLen), FALSE),
                        Para(<<"S", "u", "b", "s", "c", "r", "i", "b", "e", Space, "t", "o", Space, "o", "u", "r", Space, "n", "e", "w", "s", "l", "e", "t", "t", "e", "r", Space, "t", "o", "d", "a", "y">>, FALSE),
                        Element("ul", NoAttrs,
                                <<Element("li", NoAttrs, <<TextNode(First)>>),
                                  Element("li", NoAttrs, <<TextNode(<<"B", "u", "y", Space, "n", "o", "w">>)>>),
                                  Element("li", Attrs(None, None, None, TRUE),
                                          <<TextNode(Second)>>),
                                  Para(Second, FALSE)>>),
                        Element("hr", NoAttrs, <<>>),
                        Element("blockquote", NoAttrs,
                                <<Para(First, FALSE), Para(Second, FALSE)>>),
                        Element("figure", NoAttrs, <<Para(Second, FALSE)>>),
                        Element("pre", NoAttrs,
                                <<Element("code", Attrs(None, Some(<<"h", "l", "j", "s", Space, "l", "a", "n", "g", "u", "a", "g", "e", "-", "g", "o">>), None, FALSE),
                                          <<TextNode(<<Space, Space, "f", "u", "n", "c", Space, "f", "(", ")", Space, "{", Newline, Space, Space, Space, Space, "r", "e", "t", "u", "r", "n", Newline, Space, Space, "}">>)>>)>>),
                        Element("div", Attrs(None, None, None, TRUE),
                                <<Para(First, FALSE)>>),
                        Element("ol", NoAttrs, <<>>),
                        Element("blockquote", NoAttrs, <<TextNode(Second)>>)>>)>>),
   Document(<<TextNode(First), TextNode(<<Newline, Newline>>), TextNode(Second)>>),
   Document(<<>>)}

Docs == ArticleDocs \cup ScenarioDocs \cup RichDocs

InitDom ==
  /\ Idle
  /\ \E doc \in Docs :
       call = [op |-> "doc", doc |-> doc, best |-> None, collected |-> <<>>,
               blocks |-> <<>>]

\* extract_html_article, line 282: select_best_root(&doc)
CallSelectBestRoot ==
  /\ call.op = "doc"
  /\ call' = [call EXCEPT !.op = "select_best_root", !.best = SelectBestRoot(call.doc)]
  /\ UNCHANGED <<appVars, fsDir, fsData, writers, rd, fsEnv>>

\* extract_html_article, lines 282-283: extract_blocks on the best root, or
\* on the root element of the document
CallExtractBlocks ==
  /\ call.op = "select_best_root"
  /\ \E root \in {RootOf(IF call.best = None THEN call.doc ELSE Unwrap(call.best))} :
       call' = [call EXCEPT !.op = "extract_blocks",
                            !.collected = root.collected,
                            !.blocks = ExtractBlocks(root)]
  /\ UNCHANGED <<appVars, fsDir, fsData, writers, rd, fsEnv>>

NextDom == CallSelectBestRoot \/ CallExtractBlocks

SpecDom == InitDom /\ [][NextDom]_vars

(***************************************************************************)
(* Properties of the application: the memory tier.                         *)
(***************************************************************************)
Keys == DOMAIN reader_cache

Range(seq) == {seq[i] : i \in 1..Len(seq)}

\* The cached URL whose last touch is the oldest.
LeastRecentlyTouched ==
  touched[CHOOSE i \in 1..Len(touched) :
            /\ touched[i] \in Keys
            /\ \A j \in 1..(i - 1) : touched[j] \notin Keys]

\* The last step was a load_article completion that found the session still
\* open on the load's URL.
CompletedForSession ==
  /\ ev.op = "load_done"
  /\ reader # None
  /\ Unwrap(reader).url = ev.url

\* The age, now, of the article the last step returned.
ServedAge == now - Unwrap(ev.article).at

\* C1: when the cache holds READER_CACHE_MAX_ENTRIES URLs and a step inserts
\* a URL it did not hold, exactly the least recently touched URL leaves the
\* cache: afterwards it holds the other entries, unchanged, and the new one.
C1_EvictsLeastRecentlyTouched ==
  [][\A u \in Urls :
       (/\ Cardinality(Keys) = READER_CACHE_MAX_ENTRIES
        /\ u \notin Keys
        /\ u \in DOMAIN reader_cache')
       => /\ DOMAIN reader_cache' = (Keys \ {LeastRecentlyTouched}) \cup {u}
          /\ Cardinality(DOMAIN reader_cache') = READER_CACHE_MAX_ENTRIES
          /\ \A k \in Keys \ {LeastRecentlyTouched} : reader_cache'[k] = reader_cache[k]
          /\ Range(reader_cache_order') = DOMAIN reader_cache']_vars

\* A full cache took a new URL after URL 1 had been promoted by a hit: URL 2,
\* then the least recently touched, is gone and URL 1 is still cached.
C1_Witness ==
  /\ ev.op = "load_done"
  /\ ev.tag = "Ok"
  /\ ev.url \in Keys
  /\ ev.url > READER_CACHE_MAX_ENTRIES
  /\ Cardinality(Keys) = READER_CACHE_MAX_ENTRIES
  /\ 1 \in Keys
  /\ 2 \notin Keys

\* C2: the in-memory cache never holds more than READER_CACHE_MAX_ENTRIES
\* entries, in the map or in the order record.
C2_CacheBounded ==
  /\ Cardinality(Keys) <= READER_CACHE_MAX_ENTRIES
  /\ Len(reader_cache_order) <= READER_CACHE_MAX_ENTRIES

\* A URL from outside the full warm cache has been inserted.
C2_Witness ==
  /\ Cardinality(Keys) = READER_CACHE_MAX_ENTRIES
  /\ \E u \in Keys : u > SeedLen

FreshOnDisk(url) ==
  /\ disk[url] # None
  /\ Unwrap(disk[url]).valid
  /\ now - Unwrap(disk[url]).fetched_at <= DISK_CACHE_TTL_SECS

\* C4: while the entry a successful fetch wrote for a URL is on disk, intact
\* and at most 24 hours old, no load of that URL sends an HTTP request: it
\* returns the disk entry.
C4_NoRequestWhileFresh ==
  /\ "http_send" \in ev.ops => ~FreshOnDisk(ev.url)
  /\ ("disk_read" \in ev.ops /\ FreshOnDisk(ev.url))
     => /\ ev.op = "load_done"
        /\ ev.tag = "Ok"
        /\ ev.tier = "disk"
        /\ Unwrap(ev.article).at = Unwrap(disk[ev.url]).fetched_at

\* A load was answered from an entry written earlier and still inside the TTL.
C4_Witness ==
  /\ ev.op = "load_done"
  /\ ev.tier = "disk"
  /\ ev.tag = "Ok"
  /\ ServedAge > 0
  /\ ServedAge < DISK_CACHE_TTL_SECS
  /\ Unwrap(disk[ev.url]).fetched_at = Unwrap(ev.article).at

\* C5 as stated: an article served from the memory or the disk tier was
\* extracted at most DISK_CACHE_TTL_SECS earlier.
C5_NoTierServesPastTtl ==
  (ev.tag = "Ok" /\ ev.tier \in {"memory", "disk"})
  => ServedAge <= DISK_CACHE_TTL_SECS

\* C5, amended: an article served from the disk tier was extracted at most
\* DISK_CACHE_TTL_SECS earlier (the memory tier has no expiry).
C5_DiskNeverServesPastTtl ==
  (ev.tag = "Ok" /\ ev.tier = "disk") => ServedAge <= DISK_CACHE_TTL_SECS

\* A disk entry was served at the very end of its validity.
C5_Witness ==
  /\ ev.op = "load_done"
  /\ ev.tag = "Ok"
  /\ ev.tier = "disk"
  /\ ServedAge = DISK_CACHE_TTL_SECS

\* C10: a load of a URL that does not parse or is not http(s) returns an
\* error in its first step, having read no file, written no file and sent no
\* request; no request is ever in flight for such a URL and no file exists
\* for it.
C10_InvalidUrlTouchesNothing ==
  /\ (ev.op \in {"load_send", "load_done"} /\ ev.url \in InvalidUrls)
     => (ev.op = "load_done" /\ ev.tag = "Err" /\ ev.ops = {})
  /\ \A task \in BagToSet(tasks) : task.url \in InvalidUrls => task.pc = "spawned"
  /\ \A u \in InvalidUrls : disk[u] = None /\ u \notin Keys

\* Loads of both kinds of invalid URL have been rejected: the one the
\* session shows and the one that just returned.
C10_Witness ==
  /\ ev.op = "load_done"
  /\ ev.url = UnparsableUrl
  /\ ev.tag = "Err"
  /\ reader = Some(ReaderSession(FtpUrl, Some("hint"),
                                 Error("Only http(s) URLs are supported.")))

(***************************************************************************)
(* Properties of the disk cache under concurrent calls.                    *)
(***************************************************************************)
TargetEntry ==
  IF fsDir[TargetPath] = 0 THEN None ELSE ParseEntry(fsData[fsDir[TargetPath]])

WritersDone == \A w \in WriterIds : writers[w].pc \in {"ok", "err"}

\* C8: with one write_disk_cache at a time and a read_disk_cache running
\* beside it, the target is at every moment absent or a complete entry, and
\* what fs::read returns is a complete entry: the previous one or a new one.
C8_SwapIsAtomic ==
  /\ fsDir[TargetPath] # 0 => IsSome(TargetEntry)
  /\ rd.pc = "done" => rd.result.kind \in {"absent", "entry"}
  /\ (rd.pc = "done" /\ rd.result.kind = "entry") => rd.buf = Bytes(rd.result.w)

\* A read that began on the previous entry ended, with that entry whole,
\* after a write had put a new entry in its place.
C8_Witness ==
  /\ rd.pc = "done"
  /\ rd.result.kind = "entry"
  /\ rd.result.w = PrevEntryId
  /\ TargetEntry = Some(1)

\* C9 as stated: when the concurrent write_disk_cache calls for a URL have
\* all returned (and the file system refused nothing), the target holds the
\* complete entry of the call whose rename came last.
C9_LastWriterWins ==
  (WritersDone /\ ~fsEnv.faulted)
  => /\ fsEnv.last \in WriterIds
     /\ TargetEntry = Some(fsEnv.last)

(***************************************************************************)
(* Properties of the staleness test.                                       *)
(***************************************************************************)
\* C6: when the clock can be read, read_disk_cache misses on an entry if and
\* only if now - fetched_at > 86400: an entry fetched at now - 86400 - 1 is
\* a miss, entries fetched at now - 86400 and at now - 86400 + 1 are hits.
C6_StaleBoundary ==
  (call.op = "read_disk_cache" /\ call.t >= 0)
  => /\ (call.result = None) <=> (call.t - call.fetched_at > 86400)
     /\ call.stale <=> (call.result = None)
     /\ call.fetched_at = call.t - 86400 - 1 => call.result = None
     /\ call.fetched_at = call.t - 86400 => IsSome(call.result)
     /\ call.fetched_at = call.t - 86400 + 1 => IsSome(call.result)
     /\ IsSome(call.result) => Unwrap(call.result).at = call.fetched_at

\* An entry exactly 86400 seconds old was read and returned.
C6_Witness ==
  /\ call.op = "read_disk_cache"
  /\ call.t >= 86400
  /\ call.fetched_at = call.t - 86400
  /\ IsSome(call.result)

(***************************************************************************)
(* Properties of the disk cache file format.                               *)
(***************************************************************************)
\* C7: an article written by a write_disk_cache that returned Ok and read
\* back, with no other write in between, at most 86400 seconds later is
\* returned equal to the article written in title, byline, site_name,
\* reading_time and blocks.
C7_RoundTrip ==
  (call.op = "read" /\ call.ok /\ call.t_read - call.t_write <= 86400)
  => /\ IsSome(call.result)
     /\ Unwrap(call.result).title = call.article.title
     /\ Unwrap(call.result).byline = call.article.byline
     /\ Unwrap(call.result).site_name = call.article.site_name
     /\ Unwrap(call.result).reading_time = call.article.reading_time
     /\ Unwrap(call.result).blocks = call.article.blocks

\* An article with escaped characters, options and structured blocks came
\* back whole at the end of the TTL.
C7_Witness ==
  /\ call.op = "read"
  /\ call.ok
  /\ call.t_read - call.t_write = 86400
  /\ call.result = Some(call.article)
  /\ call.article.title = <<"a", DQuote, "b">>
  /\ IsSome(call.article.byline)
  /\ Len(call.article.blocks) = MaxBlocks
  /\ call.article.blocks[1].kind = "List"
  /\ Len(call.article.blocks[1].items) > 1
  /\ call.article.blocks[MaxBlocks].kind = "Image"
  /\ IsSome(call.article.blocks[MaxBlocks].alt)

(***************************************************************************)
(* Properties of load_article.                                             *)
(***************************************************************************)
\* The call sent its request and received a 2xx status.
Status2xx == "http_send" \in call.result.ops /\ call.resp.kind \in {"ok", "body_err", "read_err"}

\* The media type a content-type header declares: the first word of its value
DeclaredType == Unwrap(call.resp.ctype).value[1]

FailsUnsupported ==
  call.result.tag = "Err" /\ call.result.message = "Unsupported content type"

\* C11 as stated: every 2xx response with a content-type header that
\* declares a type other than HTML, XHTML and plain text makes load_article
\* fail with the unsupported-content-type error.
C11_OtherTypeAlwaysUnsupported ==
  (/\ call.op = "load_article"
   /\ Status2xx
   /\ call.resp.ctype # None
   /\ Unwrap(call.resp.ctype).value # <<>>
   /\ DeclaredType \notin {"text/html", "application/xhtml+xml", "text/plain"})
  => FailsUnsupported

\* C11, amended: every 2xx response whose body was read within the limit
\* and whose content-type header value is visible ASCII, not empty, and
\* names none of text/plain, text/html and application/xhtml+xml anywhere
\* makes load_article fail with the unsupported-content-type error, with no
\* file written.
C11_UnknownTypeUnsupported ==
  (/\ call.op = "load_article"
   /\ Status2xx
   /\ call.resp.kind = "ok"
   /\ call.resp.ctype # None
   /\ Unwrap(call.resp.ctype).ascii
   /\ Unwrap(call.resp.ctype).value # <<>>
   /\ \A k \in 1..Len(Unwrap(call.resp.ctype).value) :
        Unwrap(call.resp.ctype).value[k]
          \notin {"text/html", "application/xhtml+xml", "text/plain"})
  => /\ FailsUnsupported
     /\ call.file_after = call.file

\* An application/pdf response, read in full, was refused.
C11_Witness ==
  /\ call.op = "load_article"
  /\ Status2xx
  /\ call.resp.kind = "ok"
  /\ call.resp.ctype = Some(HeaderValue(TRUE, <<"application/pdf">>))
  /\ FailsUnsupported

(***************************************************************************)
(* Properties of read_to_end_limited.                                      *)
(***************************************************************************)
\* C12: read_to_end_limited never holds more than MAX_HTML_BYTES bytes; it
\* goes on reading only while the running total is within the limit and
\* fails with the too-large error at the read that takes the total over it;
\* a body of at most MAX_HTML_BYTES bytes that reads without error is
\* returned in full.
C12_ReadIsBounded ==
  /\ call.bytes <= MAX_HTML_BYTES
  /\ call.op = "reading" => (call.total <= MAX_HTML_BYTES /\ call.bytes = call.total)
  /\ call.result = "TooLarge"
       => /\ call.total > MAX_HTML_BYTES
          /\ call.bytes <= MAX_HTML_BYTES
          /\ call.total - call.bytes <= ReadBufLen
          /\ call.body_len > MAX_HTML_BYTES
  /\ call.result = "Ok" => (call.bytes = call.body_len /\ call.body_len <= MAX_HTML_BYTES)
  /\ (call.op = "returned" /\ call.result # "ReadErr")
       => (call.result = "Ok" <=> call.body_len <= MAX_HTML_BYTES)

\* A body of exactly 4 MiB was returned in full, some of it in short reads.
C12_Witness ==
  /\ call.op = "returned"
  /\ call.result = "Ok"
  /\ call.bytes = MAX_HTML_BYTES
  /\ call.short > 0

(***************************************************************************)
(* Properties of a failed load.                                            *)
(***************************************************************************)
\* The tasks whose request is in flight, counted with their copies.
Sent(bag) ==
  BagCardinality([tk \in {x \in BagToSet(bag) : x.pc = "sent"} |-> CopiesIn(tk, bag)])

\* C13: a load_article that returns an error ends its task, with no retry
\* and no further request; it writes no disk entry and leaves every cache
\* file, the memory cache and its order as they were.  A task sends its
\* request once.  A cache file comes into being only in the step in which
\* load_article returns an article it extracted from the network.
C13_ErrorLeavesCaches ==
  [][/\ (ev'.op = "load_done" /\ ev'.tag = "Err")
          => /\ disk' = disk
             /\ reader_cache' = reader_cache
             /\ reader_cache_order' = reader_cache_order
             /\ "disk_write" \notin ev'.ops
             /\ "http_send" \notin ev'.ops
             /\ BagCardinality(tasks') = BagCardinality(tasks) - 1
             /\ Sent(tasks') <= Sent(tasks)
     /\ "http_send" \in ev'.ops
          => /\ ev'.op = "load_send"
             /\ BagCardinality(tasks') = BagCardinality(tasks)
             /\ Sent(tasks') = Sent(tasks) + 1
     /\ \A u \in InputUrls :
          (disk[u] = None /\ disk'[u] # None)
            => /\ ev'.op = "load_done"
               /\ ev'.url = u
               /\ ev'.tag = "Ok"
               /\ ev'.tier = "network"
               /\ "disk_write" \in ev'.ops]_vars

\* A load failed after its request while the URL's (unusable) cache file
\* and another URL's memory entry exist: both are still there.
C13_Witness ==
  /\ ev.op = "load_done"
  /\ ev.tag = "Err"
  /\ disk[ev.url] # None
  /\ reader_cache # <<>>
  /\ reader # None
  /\ Unwrap(reader).url = ev.url
  /\ Unwrap(reader).state = Error("Unsupported content type")

(***************************************************************************)
(* Properties of a load whose cache write fails.                           *)
(***************************************************************************)
\* The step ended a load_article that called write_disk_cache and did not
\* leave the new entry in the cache file.
WriteFailed ==
  /\ ev'.op = "load_done"
  /\ "disk_write" \in ev'.ops
  /\ \/ ev'.article = None
     \/ disk'[ev'.url] # Some(DiskCacheEntry(now, Unwrap(ev'.article)))

\* C14 as stated: whenever write_disk_cache fails after an extraction,
\* load_article returns Ok with the article and the session becomes Ready
\* with it.
C14_WriteFailureAlwaysReady ==
  [][WriteFailed
       => /\ ev'.tag = "Ok"
          /\ ev'.tier = "network"
          /\ reader' # None
          /\ Unwrap(reader').state = Ready(Unwrap(ev'.article))]_vars

\* C14: whenever write_disk_cache fails after an extraction, load_article
\* returns Ok with the extracted article; a session that is open on the
\* load's URL becomes Ready with it and the memory cache takes it; with no
\* session, or a session on another URL, the session stays as it is.
C14_WriteFailureNotPropagated ==
  [][WriteFailed
       => /\ ev'.tag = "Ok"
          /\ ev'.tier = "network"
          /\ ev'.article # None
          /\ Unwrap(ev'.article).url = ev'.url
          /\ IF reader # None /\ Unwrap(reader).url = ev'.url
             THEN /\ reader' = Some([Unwrap(reader) EXCEPT
                                       !.state = Ready(Unwrap(ev'.article))])
                  /\ ev'.url \in DOMAIN reader_cache'
                  /\ reader_cache'[ev'.url] = Unwrap(ev'.article)
             ELSE reader' = reader]_vars

\* A load returned an article from the network, no cache file holds it, and
\* the session on its URL is Ready with it.
C14_Witness ==
  /\ ev.op = "load_done"
  /\ ev.tag = "Ok"
  /\ ev.tier = "network"
  /\ disk[ev.url] = None
  /\ reader # None
  /\ Unwrap(reader).url = ev.url
  /\ Unwrap(reader).state = Ready(Unwrap(ev.article))

(***************************************************************************)
(* Properties of a load over an unusable cache file.                       *)
(***************************************************************************)
\* The cache file of the call exists and is unreadable, malformed or stale.
BadEntry ==
  /\ call.file # None
  /\ \/ ~Unwrap(call.file).valid
     \/ IsCacheStale(call.t, Unwrap(call.file).fetched_at)

\* C15: with a cache file that is unreadable, malformed or stale,
\* load_article returns what it returns with no cache file at all (the same
\* article or the same error, after the same operations): it goes on to the
\* request, and afterwards the cache holds the same readable entry, or none,
\* in both cases.
C15_BadEntryIsAMiss ==
  (call.op = "load_article" /\ BadEntry)
    => LET miss == LoadArticle(call.url, call.hint, None, call.t, call.build_ok,
                               call.resp, call.outcome)
       IN  /\ call.result = miss.result
           /\ call.result.tier # "disk"
           /\ "disk_read" \in call.result.ops
           /\ call.build_ok => "http_send" \in call.result.ops
           /\ ReadDiskCache(call.file_after, call.t) = ReadDiskCache(miss.file, call.t)

\* A stale entry was replaced by the article fetched from the network.
C15_Witness ==
  /\ call.op = "load_article"
  /\ BadEntry
  /\ Unwrap(call.file).valid
  /\ call.result.tag = "Ok"
  /\ call.result.tier = "network"
  /\ call.file_after = Some(DiskCacheEntry(call.t, Unwrap(call.result.article)))

(***************************************************************************)
(* Properties of the reader session.                                       *)
(***************************************************************************)
\* C16: the session, when there is one, is Loading, Ready or Error.
\* open_reader makes it Ready with the memory cache's article when the cache
\* has the URL and Loading otherwise.  A load that completes while the
\* session is on the load's URL makes it Ready with the article (Ok) or
\* Error (Err); a load that completes while there is no session, or one on
\* another URL, changes neither the session nor the memory cache.  No other
\* step changes the session, except that close_reader and select_story
\* clear it.
C16_SessionStateMachine ==
  [][/\ reader' # None => Unwrap(reader').state.tag \in {"Loading", "Ready", "Error"}
     /\ ev'.op = "open_reader"
          => /\ reader' # None
             /\ Unwrap(reader').url = ev'.url
             /\ Unwrap(reader').state =
                  IF ev'.url \in DOMAIN reader_cache
                  THEN Ready(reader_cache[ev'.url]) ELSE Loading
     /\ ev'.op = "load_done"
          => IF reader # None /\ Unwrap(reader).url = ev'.url
             THEN /\ reader' # None
                  /\ Unwrap(reader').url = Unwrap(reader).url
                  /\ Unwrap(reader').title_hint = Unwrap(reader).title_hint
                  /\ IF ev'.tag = "Ok"
                     THEN Unwrap(reader').state = Ready(Unwrap(ev'.article))
                     ELSE Unwrap(reader').state.tag = "Error"
             ELSE /\ reader' = reader
                  /\ reader_cache' = reader_cache
                  /\ reader_cache_order' = reader_cache_order
     /\ ev'.op \notin {"open_reader", "load_done"}
          => (reader' = reader \/ (reader' = None /\ ev' = NoEvent))]_vars

\* A load for one URL completed with an article while the session was
\* loading another URL: the session is still Loading and the memory cache is
\* without the article.
C16_Witness ==
  /\ ev.op = "load_done"
  /\ ev.tag = "Ok"
  /\ reader # None
  /\ Unwrap(reader).url # ev.url
  /\ Unwrap(reader).state = Loading
  /\ ev.url \notin DOMAIN reader_cache

(***************************************************************************)
(* Properties of the block normalizer and of the extracted articles.       *)
(***************************************************************************)
\* The block has a payload: a text, an item, a URL.
HasPayload(block) ==
  /\ block.kind \in {"Paragraph", "Heading", "Quote", "Code"} => block.text # <<>>
  /\ block.kind = "List" => block.items # <<>>
  /\ block.kind = "Image" => block.url # <<>>

\* C17: the output of normalize_blocks has no Paragraph, Heading or Quote
\* with empty text, no List without items, no Code with empty text and no
\* Image with an empty URL, and at most 300 blocks; the blocks of every
\* article, whichever extractor made it, are at most 300.
C17_NormalizedBlocks ==
  /\ call.op \in {"normalize_blocks", "normalize_again"}
       => /\ Len(call.out) <= 300
          /\ \A k \in 1..Len(call.out) : HasPayload(call.out[k])
  /\ (call.op = "extract" /\ call.result.tag = "Ok")
       => Len(call.result.article.blocks) <= 300

\* More than 300 blocks, some of them blank, were given to normalize_blocks
\* and 300 came out.
C17_Witness ==
  /\ call.op = "normalize_blocks"
  /\ Len(call.page.root.collected) > 300
  /\ \E k \in 1..Len(call.page.root.collected) :
       CleanBlock(call.page.root.collected[k]) = None
  /\ Len(call.out) = 300

\* C18: normalize_blocks applied to its own output returns that output.
C18_NormalizeIdempotent ==
  call.op = "normalize_again" => call.again = call.out

\* normalize_blocks was applied twice to more than 300 blocks, to a list of
\* more than 100 items or to repeated paragraphs, and the first application
\* changed the sequence.
C18_Witness ==
  /\ call.op = "normalize_again"
  /\ call.out # call.page.root.collected
  /\ call.again = call.out
  /\ call.out # <<>>
  /\ \/ Len(call.page.root.collected) > 300
     \/ call.page.root.collected[1].kind = "List"
          /\ Len(call.page.root.collected[1].items) > 100
          /\ Len(call.out[1].items) = 100

\* No two adjacent blocks are paragraphs with the same text.
NoRepeatedParagraph(blocks) ==
  \A k \in 1..(Len(blocks) - 1) :
    ~(/\ blocks[k].kind = "Paragraph"
      /\ blocks[k + 1].kind = "Paragraph"
      /\ blocks[k].text = blocks[k + 1].text)

\* C19 as stated: no article, whichever path made it, has two adjacent
\* paragraphs with the same text.
C19_NoArticleRepeatsParagraph ==
  (call.op = "extract" /\ call.result.tag = "Ok")
    => NoRepeatedParagraph(call.result.article.blocks)

\* The root whose blocks the article took: the root of readabilityrs's
\* content or the one select_best_root picked.
RootUsed ==
  IF call.result.article.via = "readability" THEN Unwrap(call.page.readability).root
  ELSE call.page.root

\* The article's blocks are those of the structured pipeline: the
\* normalized blocks were not empty and held 200 bytes of text or more.
Structured ==
  /\ call.op = "extract"
  /\ call.result.tag = "Ok"
  /\ call.result.article.via \in {"readability", "custom"}
  /\ NormalizeBlocks(RootUsed.collected) # <<>>
  /\ TotalTextLen(NormalizeBlocks(RootUsed.collected)) >= 200

\* C19: the output of normalize_blocks has no two adjacent paragraphs with
\* the same text, and neither has an article whose blocks are those of the
\* structured pipeline.
C19_NormalizedNeverRepeatsParagraph ==
  /\ call.op \in {"normalize_blocks", "normalize_again"} => NoRepeatedParagraph(call.out)
  /\ Structured => NoRepeatedParagraph(call.result.article.blocks)

\* The structured pipeline collected the same paragraph twice in a row and
\* the article has it once.
C19_Witness ==
  /\ Structured
  /\ Len(RootUsed.collected) = 2
  /\ RootUsed.collected[1].kind = "Paragraph"
  /\ RootUsed.collected[2].kind = "Paragraph"
  /\ Len(call.result.article.blocks) = 1

\* The characters of the block's texts, counted as characters.
BlockTextChars(block) ==
  IF block.kind \in {"Heading", "Paragraph", "Quote", "Code"} THEN Len(block.text)
  ELSE IF block.kind = "List"
    THEN Sum([i \in 1..Len(block.items) |-> Len(block.items[i])], 1, Len(block.items))
  ELSE IF block.kind = "Image"
    THEN (IF block.alt = None THEN 0 ELSE Len(Unwrap(block.alt)))
         + (IF block.caption = None THEN 0 ELSE Len(Unwrap(block.caption)))
  ELSE 0

TotalTextChars(blocks) ==
  Sum([i \in 1..Len(blocks) |-> BlockTextChars(blocks[i])], 1, Len(blocks))

\* readabilityrs yields a content that is not blank and whose extracted
\* blocks hold at least 200 characters of text.
ReadabilityYields200Chars ==
  /\ call.page.readability # None
  /\ ~Unwrap(call.page.readability).blank
  /\ ExtractBlocks(Unwrap(call.page.readability).root) # <<>>
  /\ TotalTextChars(ExtractBlocks(Unwrap(call.page.readability).root)) >= 200

\* C20: with a plain-text content type the article is the plain-text
\* splitter's; with an HTML or absent content type it is readabilityrs's
\* exactly when that yields content with at least 200 characters of block
\* text, and the custom pipeline's otherwise; in all these cases
\* load_article returns an article.
C20_ExtractionOrder ==
  call.op = "extract"
    => /\ Contains(ContentType(call.page), "text/plain")
            => /\ call.result.tag = "Ok"
               /\ call.result.article.via = "plain"
       /\ (~Contains(ContentType(call.page), "text/plain")
             /\ (\/ ContentType(call.page) = <<>>
                 \/ Contains(ContentType(call.page), "text/html")
                 \/ Contains(ContentType(call.page), "application/xhtml+xml")))
            => /\ call.result.tag = "Ok"
               /\ call.result.article.via \in {"readability", "custom"}
               /\ call.result.article.via = "readability" <=> ReadabilityYields200Chars

(***************************************************************************)
(* Properties of the two tiers together.                                   *)
(***************************************************************************)
\* C23: a step that evicts a URL from the memory cache is the completion of
\* a load of another URL and leaves the evicted URL's cache file as it is;
\* and the first step of a load of a URL that is not in the memory cache
\* and whose file is intact and within the TTL returns the file's article
\* without a request.
C23_EvictionLeavesDisk ==
  [][/\ \A u \in InputUrls :
          (u \in DOMAIN reader_cache /\ u \notin DOMAIN reader_cache')
            => /\ disk'[u] = disk[u]
               /\ ev'.op = "load_done"
               /\ ev'.tag = "Ok"
               /\ ev'.url # u
               /\ ev'.url \in DOMAIN reader_cache'
     /\ ("disk_read" \in ev'.ops /\ FreshOnDisk(ev'.url))
          => /\ ev'.op = "load_done"
             /\ ev'.tag = "Ok"
             /\ ev'.tier = "disk"
             /\ "http_send" \notin ev'.ops
             /\ disk' = disk]_vars

\* URL 1 was evicted when the extra URL was loaded into the full cache, was
\* opened again and came from its cache file.
C23_Witness ==
  /\ ev.op = "load_done"
  /\ ev.tag = "Ok"
  /\ ev.tier = "disk"
  /\ ev.url = 1
  /\ SeedLen + 1 \in DOMAIN reader_cache
  /\ 2 \notin DOMAIN reader_cache
  /\ FreshOnDisk(1)

\* The URLs of keys whose last touch is older than that of url: the entries
\* that were in the cache when url was last touched and have been neither
\* evicted nor touched since.
Older(keys, seq, url) ==
  IF \E j \in 1..Len(seq) : seq[j] = url
  THEN LET last == CHOOSE j \in 1..Len(seq) : seq[j] = url
       IN  {seq[i] : i \in 1..(last - 1)} \cap keys
  ELSE {}

OlderThan(url) == Older(Keys, touched, url)

\* C24: a step in which cached_reader_article returns an article for a URL
\* leaves that URL in the last (most recently used) position of the order
\* record, with the map unchanged; and a step that evicts a URL evicts with
\* it, or has seen evicted or touched again before, every entry that was in
\* the cache when that URL was last touched.
C24_HitPromotes ==
  [][/\ (ev'.op = "open_reader" /\ ev'.tier = "memory")
          => /\ reader_cache_order' # <<>>
             /\ reader_cache_order'[Len(reader_cache_order')] = ev'.url
             /\ Older(DOMAIN reader_cache', touched', ev'.url) = Keys \ {ev'.url}
             /\ reader_cache' = reader_cache
     /\ \A u \in Keys :
          u \notin DOMAIN reader_cache'
            => \A v \in OlderThan(u) : v \notin DOMAIN reader_cache']_vars

\* URL 1, the oldest of a full cache, was opened from memory: it is now the
\* last of the order record and URL 2 is the first.
C24_Witness ==
  /\ ev.op = "open_reader"
  /\ ev.tier = "memory"
  /\ ev.url = 1
  /\ Len(reader_cache_order) = READER_CACHE_MAX_ENTRIES
  /\ reader_cache_order[READER_CACHE_MAX_ENTRIES] = 1
  /\ reader_cache_order[1] = 2

\* C28: the URLs of reader_cache_order are exactly the keys of reader_cache,
\* and reader_cache_order holds no URL twice.
C28_OrderMatchesMap ==
  /\ Range(reader_cache_order) = DOMAIN reader_cache
  /\ \A i, j \in 1..Len(reader_cache_order) :
       reader_cache_order[i] = reader_cache_order[j] => i = j

\* After an insertion into the full cache evicted URL 2, URL 1 was opened
\* from memory again: it moved from inside the order record to its end.
C28_Witness ==
  /\ ev.op = "open_reader"
  /\ ev.tier = "memory"
  /\ ev.url = 1
  /\ 2 \notin DOMAIN reader_cache
  /\ Len(reader_cache_order) = READER_CACHE_MAX_ENTRIES
  /\ reader_cache_order[READER_CACHE_MAX_ENTRIES - 1] = SeedLen + 1
  /\ reader_cache_order[READER_CACHE_MAX_ENTRIES] = 1

\* C27: a step in which a load_article call completes leaves a session that
\* is Ready for a URL Ready for that URL: no completion turns a Ready session
\* into Error or Loading.
C27_ReadySurvivesCompletions ==
  [][(/\ reader # None
      /\ Unwrap(reader).state.tag = "Ready"
      /\ ev'.op = "load_done")
       => /\ reader' # None
          /\ Unwrap(reader').url = Unwrap(reader).url
          /\ Unwrap(reader').state.tag = "Ready"]_vars

\* C29: after a load_article call that reached write_disk_cache, whether
\* the write failed or not, the target file of the URL is the file from
\* before the call or the new entry; an entry that parsed before the call
\* is never left absent.
C29_FailedWriteKeepsEntry ==
  [][(ev'.op = "load_done" /\ "disk_write" \in ev'.ops)
       => /\ \/ disk'[ev'.url] = disk[ev'.url]
             \/ disk'[ev'.url] = Some(DiskCacheEntry(now, Unwrap(ev'.article)))
          /\ (disk[ev'.url] # None /\ Unwrap(disk[ev'.url]).valid)
               => disk'[ev'.url] # None]_vars

\* The target file of url parses and is more than DISK_CACHE_TTL_SECS old.
StaleOnDisk(url) ==
  /\ disk[url] # None
  /\ Unwrap(disk[url]).valid
  /\ now - Unwrap(disk[url]).fetched_at > DISK_CACHE_TTL_SECS

\* C25: a step of the program that reads the stale entry of a URL does not
\* return it and leaves the file as it is; and whenever a step of the
\* program changes the file of a stale entry, the step is a load of that URL
\* returning Ok from the network and the file is the new entry.
C25_StaleIgnoredNotDeleted ==
  [][\A u \in InputUrls :
       (StaleOnDisk(u) /\ ev'.op # "quiet")
         => /\ ("disk_read" \in ev'.ops /\ ev'.url = u /\ ev'.op = "load_send")
                 => disk'[u] = disk[u]
            /\ ("disk_read" \in ev'.ops /\ ev'.url = u) => ev'.tier # "disk"
            /\ disk'[u] # disk[u]
                 => /\ ev'.op = "load_done"
                    /\ ev'.url = u
                    /\ ev'.tag = "Ok"
                    /\ ev'.tier = "network"
                    /\ disk'[u] = Some(DiskCacheEntry(now, Unwrap(ev'.article)))]_vars

\* The session is open on url and Loading.
LoadingFor(url) ==
  /\ reader # None
  /\ Unwrap(reader).url = url
  /\ Unwrap(reader).state.tag = "Loading"

\* C30: when every spawned load_article call eventually completes, a session
\* that is Loading for a URL eventually is Ready or Error for that URL, or
\* closed, or open on another URL.
C30_LoadingEnds ==
  \A url \in InputUrls :
    LoadingFor(url)
      ~> \/ reader = None
         \/ Unwrap(reader).url # url
         \/ Unwrap(reader).state.tag \in {"Ready", "Error"}

\* The only load in flight failed in the transport and the session, which
\* was Loading for its URL, shows the error.
C30_Witness ==
  /\ ev.op = "load_done"
  /\ ev.tag = "Err"
  /\ tasks = EmptyBag
  /\ reader # None
  /\ Unwrap(reader).url = ev.url
  /\ Unwrap(reader).state = Error("transport")

\* The lines of the text of the pre element that normalize_code_text keeps.
SourceLines == DropBlankEnds(Lines(ReplaceTabs(call.raw)))

\* C26: the Code block left by extract_code_block and normalize_blocks has a
\* line for every kept source line, and each line, the first included,
\* starts with as many U+00A0 as the source line has leading spaces beyond
\* the least indent of the lines that are not blank.
C26_IndentPreserved ==
  (call.op = "normalize_blocks" /\ call.blocks # <<>>)
    => LET out == Lines(call.blocks[1].text)
           least == MinIndent(SourceLines)
       IN  /\ Len(out) = Len(SourceLines)
           /\ \A i \in 1..Len(out) :
                Leading(out[i], Nbsp)
                  = IF Leading(SourceLines[i], Space) > least
                    THEN Leading(SourceLines[i], Space) - least
                    ELSE 0

(***************************************************************************)
(* Properties of the candidate root and of structured extraction.          *)
(***************************************************************************)
\* The article element of the document, its paragraphs and the candidates
\* beside it.
TheArticle(doc) == Select(doc, {"article"})[1]

ArticleParagraphs(doc) == Select(TheArticle(doc), {"p"})

\* A <div role="navigation"> whose id, class and role hold no positive
\* keyword.
PlainNavigation(element) ==
  /\ element.tag = "div"
  /\ element.attrs.role = Some(<<"n", "a", "v", "i", "g", "a", "t", "i", "o", "n">>)
  /\ ~\E kw \in POSITIVE_KEYWORDS : StrContains(Combined(element), kw)

C21_ScenarioBlocks ==
  (call.op = "extract_blocks" /\ call.doc = Scenario(First))
  => call.blocks = <<Heading(1, <<"T", "i", "t", "l", "e">>), Paragraph(First), Paragraph(Second)>>

\* C21 (amended): for that document, whatever its first paragraph,
\* collect_blocks gathers exactly the heading, the first paragraph and the
\* second paragraph in document order, nothing from the ad-banner div;
\* extract_blocks returns these three blocks when their texts come to at
\* least 200 bytes, and otherwise the two paragraphs without the heading.
C21_ScenarioStructured ==
  \A first \in Firsts :
    (call.op = "extract_blocks" /\ call.doc = Scenario(first))
    => LET structured == <<Heading(1, <<"T", "i", "t", "l", "e">>),
                           Paragraph(NormalizeWhitespace(first)), Paragraph(Second)>>
       IN  /\ call.collected = structured
           /\ call.blocks = IF TotalTextLen(structured) >= MinTextLen THEN structured
                            ELSE <<structured[2], structured[3]>>

\* The scenario with texts of exactly 200 bytes: heading and paragraphs.
C21_Witness ==
  /\ call.op = "extract_blocks"
  /\ call.doc \in ScenarioDocs
  /\ TotalTextLen(call.blocks) = MinTextLen
  /\ Len(call.blocks) = 3
  /\ call.blocks[1] = Heading(1, <<"T", "i", "t", "l", "e">>)

====
